---------------------------- MODULE BackOfficeProofs ----------------------------
(***************************************************************************)
(* What is proved of the back office's parts: the numbers of invoices and  *)
(* of table orders; no row shows a file that was deleted; the credentials  *)
(* of an account; the tenant's plan, invitations, administrators and       *)
(* payment methods.  The parts share nothing, so each has an invariant of  *)
(* its own, and its own assumption on the constants, stated in its module. *)
(***************************************************************************)
EXTENDS BackOffice, FiniteSetTheorems, SequenceTheorems, TLAPS

-----------------------------------------------------------------------------
(* The numbers of the cash desk, whatever requests overlap: a sale has its counter's row and
   an order its shift's row to itself from the moment it takes a number to its commit. *)

\* A request that holds no counter and no turn.
LEMMA DeskIdle ==
  D!Idle.kind = "idle" /\ D!SaleFits(D!Idle) /\ D!OrderFits(D!Idle)
<1>1. D!Idle.kind = "idle"
  BY DEF D!Idle
<1> QED
  BY <1>1 DEF D!SaleFits, D!OrderFits

LEMMA DeskStarts == ASSUME D!Init PROVE D!IInv
<1>1. D!NumberTypes
  BY DEF D!Init, D!NumberTypes
<1>2. \A r \in Clerks : saleReq[r] = D!Idle
  BY DEF D!Init
<1>3. D!InvoicesInOrder
  <2>1. \A x \in InvoicePrefixes : D!Issued(x) = {} /\ counter[x] = 0
    BY DEF D!Init, D!Issued
  <2> QED
    BY <2>1 DEF D!InvoicesInOrder
<1>4. D!TurnInOrder
  BY <1>2, DeskIdle DEF D!Init, D!TurnInOrder, D!HoldsTurn
<1>5. D!OneHolder
  BY <1>2, DeskIdle DEF D!OneHolder, D!HoldsTurn, D!HoldsCounter
<1> QED
  BY <1>1, <1>2, <1>3, <1>4, <1>5, DeskIdle DEF D!IInv

\* One request takes another row, and what is committed stays: what it then holds, no other
\* request holds.
DeskHolds(r, k) ==
  /\ k.kind = "sale" /\ k.built # <<>> => \A q \in Clerks \ {r} : ~D!HoldsCounter(q, k.prefix)
  /\ k.kind = "order" /\ k.stage = "done" =>
       /\ shift[k.shift].status = "open" /\ k.next = Len(turn[k.shift]) + 1
       /\ \A q \in Clerks \ {r} : ~D!HoldsTurn(q, k.shift)

DeskTakes(r, k) ==
  saleReq' = [saleReq EXCEPT ![r] = k] /\ UNCHANGED <<shift, sales, counter, turn>>

LEMMA DeskRow ==
  ASSUME D!IInv, NEW r \in Clerks, NEW k, DeskTakes(r, k),
         DOMAIN k = DOMAIN D!Idle, D!SaleFits(k), D!OrderFits(k), DeskHolds(r, k)
  PROVE  D!IInv'
<1>1. saleReq'[r] = k /\ \A q \in Clerks \ {r} : saleReq'[q] = saleReq[q]
  BY DEF D!IInv, D!NumberTypes, DeskTakes
<1>2. D!NumberTypes'
  BY DEF D!IInv, D!NumberTypes, DeskTakes
<1>3. \A q \in Clerks : DOMAIN saleReq'[q] = DOMAIN D!Idle'
  BY <1>1 DEF D!IInv, D!Idle
<1>4. \A q \in Clerks : D!SaleFits(saleReq[q])'
  BY <1>1 DEF D!IInv, D!SaleFits, D!First, DeskTakes
<1>5. \A q \in Clerks : D!OrderFits(saleReq[q])'
  BY <1>1 DEF D!IInv, D!OrderFits
<1>6. D!OneHolder'
  BY <1>1 DEF D!IInv, D!OneHolder, D!HoldsCounter, D!HoldsTurn, DeskHolds
<1>7. D!InvoicesInOrder'
  BY DEF D!IInv, D!InvoicesInOrder, D!Issued, DeskTakes
<1>8. D!TurnInOrder'
  BY <1>1 DEF D!IInv, D!TurnInOrder, D!HoldsTurn, DeskHolds, DeskTakes
<1> QED
  BY <1>2, <1>3, <1>4, <1>5, <1>6, <1>7, <1>8 DEF D!IInv

LEMMA DeskOther ==
  ASSUME D!IInv, NEW r \in Clerks, NEW k, DeskTakes(r, k),
         DOMAIN k = DOMAIN D!Idle, k.kind \notin {"sale", "order"}
  PROVE  D!IInv'
<1>1. D!SaleFits(k) /\ D!OrderFits(k) /\ DeskHolds(r, k)
  BY DEF D!SaleFits, D!OrderFits, DeskHolds
<1> QED
  BY <1>1, DeskRow

LEMMA DeskRollback ==
  ASSUME D!IInv, NEW r \in Clerks, DeskTakes(r, D!Idle)
  PROVE  D!IInv'
BY DeskIdle, DeskOther

LEMMA DeskTakesIt ==
  ASSUME NEW r, NEW k, D!Update(r, k)
  PROVE  DeskTakes(r, k)
BY DEF D!Update, DeskTakes

LEMMA DeskBegins ==
  ASSUME NEW r, NEW k, D!Begin(r, k)
  PROVE  DeskTakes(r, k)
BY DEF D!Begin, DeskTakes

\* Sales.
LEMMA DeskBeginSaleKeeps ==
  ASSUME D!Billed, D!IInv, NEW r \in Clerks, NEW s \in Shifts, NEW x \in InvoicePrefixes,
         NEW bills \in Accounts, D!BeginSale(r, s, x, bills)
  PROVE  D!IInv'
<1>1. PICK k : k = [D!Idle EXCEPT !.kind = "sale", !.shift = s, !.prefix = x, !.bills = bills]
  OBVIOUS
<1>2. /\ k.kind = "sale" /\ k.shift = s /\ k.prefix = x /\ k.bills = bills
      /\ k.built = <<>> /\ k.stage = "start" /\ DOMAIN k = DOMAIN D!Idle
  BY <1>1 DEF D!Idle
<1>3. DeskTakes(r, k) /\ bills # <<>>
  BY <1>1, DeskBegins DEF D!BeginSale
<1>4. bills \in Seq(D!BillRow) /\ <<>> \in Seq(D!SaleRow) /\ DOMAIN <<>> = {}
  BY DEF D!Billed
<1>5. D!SaleFits(k)
  BY <1>2, <1>3, <1>4 DEF D!SaleFits
<1>6. D!OrderFits(k) /\ DeskHolds(r, k)
  BY <1>2 DEF D!OrderFits, DeskHolds
<1> QED
  BY <1>2, <1>3, <1>5, <1>6, DeskRow

\* What a sale of a bill that is accepted issues.
LEMMA DeskBuilt ==
  ASSUME NEW r \in Clerks, NEW n \in Nat, D!SaleFits(saleReq[r]), saleReq[r].kind = "sale",
         saleReq[r].bills # <<>>
  PROVE  /\ D!Built(r, n) \in D!SaleRow
         /\ D!Built(r, n).prefix = saleReq[r].prefix /\ D!Built(r, n).number = n
<1>1. PICK b : b = Head(saleReq[r].bills)
  OBVIOUS
<1>2. b \in D!BillRow
  BY <1>1, HeadTailProperties DEF D!SaleFits
<1>3. /\ b.subtotal \in Int /\ b.discount \in Int /\ b.extra \in Int
      /\ b.cash \in D!Money /\ b.cash \in Int /\ b.other \in Int
  BY <1>2 DEF D!BillRow, D!Money
<1>4. D!Total(b) \in Int /\ b.cash + b.other - D!Total(b) \in Int
  <2>1. \A t, d, e, c, o \in Int : t - d + e \in Int /\ c + o - (t - d + e) \in Int
    OBVIOUS
  <2>2. D!Total(b) = b.subtotal - b.discount + b.extra
    BY DEF D!Total
  <2> QED
    BY <2>1, <2>2, <1>3
<1> QED
  BY <1>1, <1>3, <1>4 DEF D!Built, D!SaleRow, D!SaleFits

\* A sale goes on numbering from what it has numbered, or from the counter that it locks.
LEMMA DeskNumbered ==
  ASSUME D!IInv, NEW r \in Clerks, NEW n \in Nat, D!Update(r, D!Numbered(r, n)),
         saleReq[r].kind = "sale", saleReq[r].bills # <<>>,
         \A q \in Clerks \ {r} : ~D!HoldsCounter(q, saleReq[r].prefix),
         n = D!First(saleReq[r].prefix) + Len(saleReq[r].built)
  PROVE  D!IInv'
<1>1. PICK j : j = saleReq[r]
  OBVIOUS
<1>2. PICK k : k = D!Numbered(r, n)
  OBVIOUS
<1>3. D!SaleFits(j) /\ DOMAIN j = DOMAIN D!Idle /\ j.kind = "sale" /\ j.bills # <<>>
  BY <1>1 DEF D!IInv
<1>4. /\ k.built = Append(j.built, D!Built(r, n)) /\ k.bills = Tail(j.bills)
      /\ k.next = n + 1 /\ k.stage = "start" /\ k.kind = "sale"
      /\ k.shift = j.shift /\ k.prefix = j.prefix /\ DOMAIN k = DOMAIN D!Idle
  <2>1. {"kind", "stage", "shift", "prefix", "built", "bills", "next"} \subseteq DOMAIN j
    BY <1>3 DEF D!Idle
  <2>2. k = [j EXCEPT !.built = Append(j.built, D!Built(r, n)), !.bills = Tail(j.bills),
                      !.next = n + 1, !.stage = "start"]
    BY <1>1, <1>2 DEF D!Numbered
  <2> QED
    BY <2>1, <2>2, <1>3
<1>5. PICK e : e = D!Built(r, n)
  OBVIOUS
<1>6. e \in D!SaleRow /\ e.prefix = j.prefix /\ e.number = n
  BY <1>1, <1>3, <1>5, DeskBuilt
<1>7. /\ j.built \in Seq(D!SaleRow) /\ j.bills \in Seq(D!BillRow)
      /\ j.shift \in Shifts /\ j.prefix \in InvoicePrefixes
      /\ \A i \in DOMAIN j.built : /\ j.built[i].prefix = j.prefix
                                   /\ j.built[i].number = D!First(j.prefix) + i - 1
  BY <1>3 DEF D!SaleFits
<1>8. PICK m : m = Len(j.built)
  OBVIOUS
<1>9. m \in Nat /\ DOMAIN j.built = 1 .. m
  BY <1>7, <1>8, LenProperties
<1>10. /\ k.built \in Seq(D!SaleRow) /\ k.built # <<>> /\ Len(k.built) = m + 1
       /\ DOMAIN k.built = 1 .. m + 1
       /\ \A i \in 1 .. m : k.built[i] = j.built[i]
       /\ k.built[m + 1] = e
  <2>1. k.built = Append(j.built, e)
    BY <1>4, <1>5
  <2>2. k.built \in Seq(D!SaleRow) /\ Len(k.built) = m + 1
    BY <2>1, <1>6, <1>7, <1>8, AppendProperties
  <2> QED
    BY <2>1, <2>2, <1>6, <1>7, <1>8, <1>9, AppendProperties, LenProperties
<1>11. k.bills \in Seq(D!BillRow)
  BY <1>3, <1>4, <1>7, HeadTailProperties
<1>12. n = D!First(j.prefix) + m /\ D!First(j.prefix) \in Nat
  BY <1>1, <1>7, <1>8 DEF D!First, D!IInv, D!NumberTypes
<1>13. \A i \in 1 .. m + 1 : /\ k.built[i].prefix = k.prefix
                             /\ k.built[i].number = D!First(k.prefix) + i - 1
  <2> SUFFICES ASSUME NEW i \in 1 .. m + 1
               PROVE  /\ k.built[i].prefix = k.prefix
                      /\ k.built[i].number = D!First(k.prefix) + i - 1
    OBVIOUS
  <2>1. CASE i = m + 1
    BY <2>1, <1>4, <1>6, <1>9, <1>10, <1>12
  <2>2. CASE i \in 1 .. m
    BY <2>2, <1>4, <1>7, <1>9, <1>10
  <2> QED
    BY <2>1, <2>2, <1>9
<1>14. D!SaleFits(k)
  <2>1. k.next = D!First(k.prefix) + Len(k.built)
    BY <1>4, <1>9, <1>10, <1>12
  <2>2. k.shift \in Shifts /\ k.prefix \in InvoicePrefixes /\ k.stage = "start"
    BY <1>4, <1>7
  <2>3. \A i \in DOMAIN k.built : /\ k.built[i].prefix = k.prefix
                                  /\ k.built[i].number = D!First(k.prefix) + i - 1
    BY <1>10, <1>13
  <2> QED
    BY <2>1, <2>2, <2>3, <1>10, <1>11 DEF D!SaleFits
<1>15. D!OrderFits(k) /\ DeskHolds(r, k)
  BY <1>1, <1>4 DEF D!OrderFits, DeskHolds
<1> QED
  BY <1>2, <1>4, <1>14, <1>15, DeskTakesIt, DeskRow

LEMMA DeskBuildSaleKeeps ==
  ASSUME D!IInv, NEW r \in Clerks, D!BuildSale(r)
  PROVE  D!IInv'
<1>1. PICK j : j = saleReq[r]
  OBVIOUS
<1>2. /\ D!SaleFits(j) /\ DOMAIN j = DOMAIN D!Idle
      /\ j.kind = "sale" /\ j.stage = "start" /\ j.bills # <<>>
  BY <1>1 DEF D!IInv, D!BuildSale
<1>3. /\ j.prefix \in InvoicePrefixes /\ D!First(j.prefix) \in Nat
      /\ j.built \in Seq(D!SaleRow) /\ Len(j.built) \in Nat
  BY <1>2, LenProperties DEF D!SaleFits, D!IInv, D!NumberTypes, D!First
<1>4. CASE D!Update(r, D!Idle)
  BY <1>4, DeskTakesIt, DeskRollback
<1>5. CASE j.built # <<>> /\ D!Update(r, D!Numbered(r, j.next))
  <2>1. j.next = D!First(j.prefix) + Len(j.built)
    BY <1>2, <1>5 DEF D!SaleFits
  <2>2. D!HoldsCounter(r, j.prefix)
    BY <1>1, <1>2, <1>5 DEF D!HoldsCounter
  <2>3. \A q \in Clerks \ {r} : ~D!HoldsCounter(q, j.prefix)
    BY <2>2, <1>3 DEF D!IInv, D!OneHolder
  <2> QED
    BY <2>1, <2>3, <1>1, <1>2, <1>3, <1>5, DeskNumbered
<1>6. CASE j.built = <<>> /\ D!Update(r, [j EXCEPT !.stage = "insert"])
  <2>1. PICK k : k = [j EXCEPT !.stage = "insert"]
    OBVIOUS
  <2>2. {"kind", "stage", "shift", "prefix", "built", "bills", "next"} \subseteq DOMAIN j
    BY <1>2 DEF D!Idle
  <2>3. /\ k.stage = "insert" /\ k.kind = "sale" /\ k.bills = j.bills /\ k.built = j.built
        /\ k.shift = j.shift /\ k.prefix = j.prefix /\ DOMAIN k = DOMAIN D!Idle
    BY <2>1, <2>2, <1>2
  <2>4. D!SaleFits(k)
    BY <2>3, <1>2, <1>6 DEF D!SaleFits
  <2>5. D!OrderFits(k) /\ DeskHolds(r, k)
    BY <2>3, <1>6 DEF D!OrderFits, DeskHolds
  <2> QED
    BY <2>1, <2>3, <2>4, <2>5, <1>6, DeskTakesIt, DeskRow
<1>7. CASE /\ j.built = <<>> /\ counter[j.prefix] # 0 /\ D!CounterFree(r, j.prefix)
           /\ D!Update(r, D!Numbered(r, counter[j.prefix]))
  <2>1. counter[j.prefix] = D!First(j.prefix) + Len(j.built)
    BY <1>3, <1>7 DEF D!First
  <2> QED
    BY <2>1, <1>1, <1>2, <1>3, <1>7, DeskNumbered DEF D!CounterFree
<1> QED
  BY <1>1, <1>4, <1>5, <1>6, <1>7 DEF D!BuildSale

LEMMA DeskInsertCounterKeeps ==
  ASSUME D!IInv, NEW r \in Clerks, D!InsertCounter(r)
  PROVE  D!IInv'
<1>1. PICK j : j = saleReq[r]
  OBVIOUS
<1>2. /\ D!SaleFits(j) /\ j.kind = "sale" /\ j.stage = "insert"
      /\ \A q \in Clerks \ {r} : ~D!HoldsCounter(q, j.prefix)
  BY <1>1 DEF D!IInv, D!InsertCounter, D!CounterFree
<1>3. j.built = <<>> /\ j.bills # <<>> /\ Len(j.built) = 0
  BY <1>2 DEF D!SaleFits
<1>4. CASE counter[j.prefix] = 0 /\ D!Update(r, D!Numbered(r, 1))
  <2>1. 1 = D!First(j.prefix) + Len(j.built)
    BY <1>3, <1>4 DEF D!First
  <2> QED
    BY <2>1, <1>1, <1>2, <1>3, <1>4, DeskNumbered
<1>5. CASE D!Update(r, D!Idle)
  BY <1>5, DeskTakesIt, DeskRollback
<1> QED
  BY <1>1, <1>4, <1>5 DEF D!InsertCounter

\* The sales of one transaction and the counter they moved become visible together.
LEMMA DeskCommitSaleKeeps ==
  ASSUME D!IInv, NEW r \in Clerks, D!CommitSale(r)
  PROVE  D!IInv'
<1>1. PICK j : j = saleReq[r]
  OBVIOUS
<1>2. D!SaleFits(j) /\ j.kind = "sale" /\ j.bills = <<>>
  BY <1>1 DEF D!IInv, D!CommitSale
<1>3. PICK x : x = j.prefix
  OBVIOUS
<1>4. /\ x \in InvoicePrefixes /\ j.built \in Seq(D!SaleRow) /\ j.built # <<>>
      /\ j.next = D!First(x) + Len(j.built)
      /\ \A i \in DOMAIN j.built : /\ j.built[i].prefix = x
                                   /\ j.built[i].number = D!First(x) + i - 1
  BY <1>2, <1>3 DEF D!SaleFits
<1>5. /\ sales' = sales \o j.built /\ counter' = [counter EXCEPT ![x] = j.next]
      /\ saleReq' = [saleReq EXCEPT ![r] = D!Idle] /\ shift' = shift /\ turn' = turn
  BY <1>1, <1>3 DEF D!CommitSale
<1>6. PICK m, n : m = Len(sales) /\ n = Len(j.built)
  OBVIOUS
<1>7. sales \in Seq(D!SaleRow) /\ counter \in [InvoicePrefixes -> Nat]
  BY DEF D!IInv, D!NumberTypes
<1>8. m \in Nat /\ n \in Nat \ {0} /\ DOMAIN sales = 1 .. m /\ DOMAIN j.built = 1 .. n
  BY <1>4, <1>6, <1>7, LenProperties, EmptySeq
<1>9. /\ sales' \in Seq(D!SaleRow) /\ DOMAIN sales' = 1 .. m + n
      /\ \A i \in 1 .. m : sales'[i] = sales[i]
      /\ \A i \in 1 .. n : sales'[m + i] = j.built[i]
  <2>1. /\ sales \o j.built \in Seq(D!SaleRow) /\ Len(sales \o j.built) = m + n
        /\ \A i \in 1 .. m + n :
             (sales \o j.built)[i] = IF i <= m THEN sales[i] ELSE j.built[i - m]
    BY <1>4, <1>6, <1>7, ConcatProperties
  <2>2. sales' \in Seq(D!SaleRow) /\ DOMAIN sales' = 1 .. m + n
    BY <2>1, <1>5, LenProperties
  <2>3. \A i \in 1 .. n : m + i \in 1 .. m + n /\ ~(m + i <= m) /\ (m + i) - m = i
    BY <1>8
  <2>4. \A i \in 1 .. m : i \in 1 .. m + n /\ i <= m
    BY <1>8
  <2> QED
    BY <2>1, <2>2, <2>3, <2>4, <1>5
<1>10. PICK f : f = D!First(x)
  OBVIOUS
<1>11. f \in Nat /\ f # 0 /\ (counter[x] = 0 => f = 1) /\ (counter[x] # 0 => counter[x] = f)
  BY <1>4, <1>7, <1>10 DEF D!First
<1>12. counter'[x] = f + n /\ \A y \in InvoicePrefixes \ {x} : counter'[y] = counter[y]
  BY <1>4, <1>5, <1>6, <1>7, <1>10
<1>13. D!NumberTypes'
  <2>1. f + n \in Nat /\ j.next = f + n
    BY <1>4, <1>6, <1>8, <1>10, <1>11
  <2>2. counter' \in [InvoicePrefixes -> Nat]
    BY <2>1, <1>5, <1>7
  <2> QED
    BY <2>2, <1>5, <1>9 DEF D!IInv, D!NumberTypes
<1>14. saleReq'[r] = D!Idle /\ \A q \in Clerks \ {r} : saleReq'[q] = saleReq[q]
  BY <1>5 DEF D!IInv, D!NumberTypes
<1>15. \A q \in Clerks : DOMAIN saleReq'[q] = DOMAIN D!Idle'
  BY <1>14 DEF D!IInv, D!Idle
<1>16. \A q \in Clerks : D!SaleFits(saleReq[q])'
  <2> SUFFICES ASSUME NEW q \in Clerks \ {r}, saleReq[q].kind = "sale"
               PROVE  D!SaleFits(saleReq[q])'
    BY <1>14, DeskIdle DEF D!SaleFits
  <2>1. D!SaleFits(saleReq[q]) /\ saleReq[q].built \in Seq(D!SaleRow)
    BY DEF D!IInv, D!SaleFits
  <2>2. saleReq[q].built # <<>> => saleReq[q].prefix # x
    BY <1>1, <1>2, <1>3, <1>4 DEF D!IInv, D!OneHolder, D!HoldsCounter
  <2>3. saleReq[q].built # <<>> => D!First(saleReq[q].prefix)' = D!First(saleReq[q].prefix)
    BY <2>1, <2>2, <1>12, <1>14 DEF D!First, D!SaleFits
  <2>4. saleReq[q].built = <<>> => DOMAIN saleReq[q].built = {}
    OBVIOUS
  <2> QED
    BY <2>1, <2>3, <2>4, <1>14 DEF D!SaleFits
<1>17. \A q \in Clerks : D!OrderFits(saleReq[q])'
  BY <1>14, DeskIdle DEF D!IInv, D!OrderFits
<1>18. D!OneHolder'
  BY <1>14, DeskIdle DEF D!IInv, D!OneHolder, D!HoldsCounter, D!HoldsTurn
<1>19. D!TurnInOrder'
  BY <1>5, <1>14, DeskIdle DEF D!IInv, D!TurnInOrder, D!HoldsTurn
<1>20. ASSUME NEW y \in InvoicePrefixes \ {x} PROVE D!Issued(y)' = D!Issued(y)
  <2>1. \A i \in 1 .. m + n : i \in 1 .. m \/ (i - m \in 1 .. n /\ i = m + (i - m))
    BY <1>8
  <2>2. ASSUME NEW k \in 1 .. n PROVE sales'[m + k].prefix = x
    <3>1. sales'[m + k] = j.built[k]
      BY <1>9
    <3>2. j.built[k].prefix = x
      BY <1>4, <1>8
    <3> QED
      BY <3>1, <3>2
  <2>3. \A i \in 1 .. m : i \in 1 .. m + n
    BY <1>8
  <2>4. D!Issued(y)' = {i \in 1 .. m + n : sales'[i].prefix = y}
    BY <1>9 DEF D!Issued
  <2>5. D!Issued(y) = {i \in 1 .. m : sales[i].prefix = y}
    BY <1>8 DEF D!Issued
  <2>6. \A i \in 1 .. m + n : sales'[i].prefix = y => i \in 1 .. m /\ sales[i].prefix = y
    <3> SUFFICES ASSUME NEW i \in 1 .. m + n, sales'[i].prefix = y
                 PROVE  i \in 1 .. m /\ sales[i].prefix = y
      OBVIOUS
    <3>1. i \in 1 .. m
      BY <2>1, <2>2
    <3> QED
      BY <3>1, <1>9
  <2>7. \A i \in 1 .. m : sales[i].prefix = y => sales'[i].prefix = y
    BY <1>9
  <2> QED
    BY <2>3, <2>4, <2>5, <2>6, <2>7
<1>21. /\ D!Issued(x)' = D!Issued(x) \cup m + 1 .. m + n
       /\ D!Issued(x) \subseteq 1 .. m
       /\ \A i \in D!Issued(x) : sales'[i] = sales[i] /\ sales[i].number \in 1 .. f - 1
       /\ \A i \in m + 1 .. m + n : sales'[i].number = f + (i - m) - 1
  <2>1. \A i \in m + 1 .. m + n : i - m \in 1 .. n /\ i = m + (i - m) /\ i \in 1 .. m + n
    BY <1>8
  <2>2. \A i \in m + 1 .. m + n : sales'[i] = j.built[i - m]
    BY <2>1, <1>9
  <2>3. \A i \in m + 1 .. m + n : /\ sales'[i].prefix = x
                                  /\ sales'[i].number = f + (i - m) - 1
    <3> SUFFICES ASSUME NEW i \in m + 1 .. m + n
                 PROVE  sales'[i].prefix = x /\ sales'[i].number = f + (i - m) - 1
      OBVIOUS
    <3>1. PICK k \in DOMAIN j.built : k = i - m
      BY <2>1, <1>8
    <3>2. j.built[k].prefix = x /\ j.built[k].number = f + k - 1
      BY <1>4, <1>10
    <3> QED
      BY <2>2, <3>1, <3>2
  <2>4. \A i \in 1 .. m + n : i \in 1 .. m \/ i \in m + 1 .. m + n
    BY <1>8
  <2>5. D!Issued(x) \subseteq 1 .. m
    BY <1>8 DEF D!Issued
  <2>6. D!Issued(x)' = D!Issued(x) \cup m + 1 .. m + n
    BY <2>1, <2>3, <2>4, <1>8, <1>9 DEF D!Issued
  <2>7. {sales[i].number : i \in D!Issued(x)} = 1 .. counter[x] - 1
    BY <1>4 DEF D!IInv, D!InvoicesInOrder
  <2>8. 1 .. counter[x] - 1 = 1 .. f - 1
    BY <1>11
  <2> QED
    BY <2>3, <2>5, <2>6, <2>7, <2>8, <1>9
<1>22. D!InvoicesInOrder'
  <2>1. ASSUME NEW y \in InvoicePrefixes \ {x}
        PROVE  /\ \A i, k \in D!Issued(y)' : i < k => sales'[i].number < sales'[k].number
               /\ {sales'[i].number : i \in D!Issued(y)'} = 1 .. counter'[y] - 1
    <3>1. \A i \in D!Issued(y) : sales'[i] = sales[i]
      BY <1>8, <1>9 DEF D!Issued
    <3>2. D!Issued(y)' = D!Issued(y) /\ counter'[y] = counter[y]
      BY <1>12, <1>20
    <3>3. {sales'[i].number : i \in D!Issued(y)} = {sales[i].number : i \in D!Issued(y)}
      BY <3>1
    <3> QED
      BY <3>1, <3>2, <3>3 DEF D!IInv, D!InvoicesInOrder
  <2>2. \A i, k \in D!Issued(x)' : i < k => sales'[i].number < sales'[k].number
    <3> SUFFICES ASSUME NEW i \in D!Issued(x)', NEW k \in D!Issued(x)', i < k
                 PROVE  sales'[i].number < sales'[k].number
      OBVIOUS
    <3>1. CASE k \in D!Issued(x)
      <4>1. i \in D!Issued(x)
        BY <3>1, <1>8, <1>21
      <4> QED
        BY <4>1, <3>1, <1>4, <1>21 DEF D!IInv, D!InvoicesInOrder
    <3>2. CASE i \in D!Issued(x) /\ k \in m + 1 .. m + n
      BY <3>2, <1>8, <1>11, <1>21
    <3>3. CASE i \in m + 1 .. m + n /\ k \in m + 1 .. m + n
      BY <3>3, <1>8, <1>11, <1>21
    <3> QED
      BY <3>1, <3>2, <3>3, <1>21
  <2>3. {sales'[i].number : i \in D!Issued(x)'} = 1 .. counter'[x] - 1
    <3>1. {sales[i].number : i \in D!Issued(x)} = 1 .. f - 1
      <4>1. 1 .. counter[x] - 1 = 1 .. f - 1
        BY <1>11
      <4> QED
        BY <4>1, <1>4 DEF D!IInv, D!InvoicesInOrder
    <3>2. {sales'[i].number : i \in D!Issued(x)} = {sales[i].number : i \in D!Issued(x)}
      BY <1>21
    <3>3. {sales'[i].number : i \in m + 1 .. m + n} = f .. f + n - 1
      <4>1. \A i \in m + 1 .. m + n : sales'[i].number \in f .. f + n - 1
        BY <1>8, <1>11, <1>21
      <4>2. ASSUME NEW c \in f .. f + n - 1
            PROVE  \E i \in m + 1 .. m + n : sales'[i].number = c
        <5>1. m + (c - f) + 1 \in m + 1 .. m + n /\ f + ((m + (c - f) + 1) - m) - 1 = c
          BY <1>8, <1>11, SMTT(30)
        <5> QED
          BY <5>1, <1>21
      <4> QED
        BY <4>1, <4>2
    <3>4. 1 .. f + n - 1 = 1 .. f - 1 \cup f .. f + n - 1
      BY <1>8, <1>11
    <3>5. {sales'[i].number : i \in D!Issued(x)'} =
            {sales'[i].number : i \in D!Issued(x)} \cup {sales'[i].number : i \in m + 1 .. m + n}
      BY <1>21
    <3>6. 1 .. counter'[x] - 1 = 1 .. f + n - 1
      <4>1. counter'[x] = f + n
        BY <1>12
      <4>2. f \in Int /\ n \in Int
        BY <1>8, <1>11
      <4> QED
        BY <4>1, <4>2
    <3>7. {sales'[i].number : i \in D!Issued(x)} = 1 .. f - 1
      BY <3>1, <3>2
    <3>8. {sales'[i].number : i \in D!Issued(x)'} = 1 .. f - 1 \cup f .. f + n - 1
      BY <3>3, <3>5, <3>7
    <3> QED
      BY <3>4, <3>6, <3>8
  <2> QED
    BY <2>1, <2>2, <2>3 DEF D!InvoicesInOrder
<1> QED
  BY <1>13, <1>15, <1>16, <1>17, <1>18, <1>19, <1>22 DEF D!IInv

\* Table orders.
LEMMA DeskBeginOrderKeeps ==
  ASSUME D!IInv, NEW r \in Clerks, D!BeginOrder(r)
  PROVE  D!IInv'
<1>1. PICK k : k = [D!Idle EXCEPT !.kind = "order", !.seen = D!Open]
  OBVIOUS
<1>2. /\ k.kind = "order" /\ k.seen = D!Open /\ k.stage = "start"
      /\ DOMAIN k = DOMAIN D!Idle
  BY <1>1 DEF D!Idle
<1>3. D!OrderFits(k) /\ D!SaleFits(k) /\ DeskHolds(r, k)
  BY <1>2 DEF D!OrderFits, D!SaleFits, DeskHolds, D!Open
<1> QED
  BY <1>1, <1>2, <1>3, DeskBegins, DeskRow DEF D!BeginOrder

LEMMA DeskLockTurnKeeps ==
  ASSUME D!IInv, NEW r \in Clerks, D!LockTurn(r)
  PROVE  D!IInv'
<1>1. PICK j : j = saleReq[r]
  OBVIOUS
<1>2. /\ D!OrderFits(j) /\ DOMAIN j = DOMAIN D!Idle /\ j.kind = "order" /\ j.stage = "start"
      /\ {"kind", "stage", "shift", "seen", "next"} \subseteq DOMAIN j
  BY <1>1 DEF D!IInv, D!LockTurn, D!Idle
<1>3. CASE D!Update(r, D!Idle)
  BY <1>3, DeskTakesIt, DeskRollback
<1>4. ASSUME NEW s \in D!Latest(j.seen), D!TurnFree(r, s), shift[s].status = "open",
             D!Update(r, [j EXCEPT !.stage = "done", !.shift = s, !.next = Len(turn[s]) + 1])
      PROVE  D!IInv'
  <2>1. PICK k : k = [j EXCEPT !.stage = "done", !.shift = s, !.next = Len(turn[s]) + 1]
    OBVIOUS
  <2>2. /\ k.kind = "order" /\ k.stage = "done" /\ k.shift = s /\ k.seen = j.seen
        /\ k.next = Len(turn[s]) + 1 /\ DOMAIN k = DOMAIN D!Idle
    BY <2>1, <1>2
  <2>3. D!OrderFits(k)
    BY <2>2, <1>2 DEF D!OrderFits, D!Latest
  <2>4. D!SaleFits(k) /\ DeskHolds(r, k)
    BY <2>2, <1>4 DEF D!SaleFits, DeskHolds, D!TurnFree
  <2> QED
    BY <2>1, <2>2, <2>3, <2>4, <1>4, DeskTakesIt, DeskRow
<1>5. ASSUME NEW s \in D!Latest(j.seen), D!Update(r, [j EXCEPT !.seen = j.seen \ {s}])
      PROVE  D!IInv'
  <2>1. PICK k : k = [j EXCEPT !.seen = j.seen \ {s}]
    OBVIOUS
  <2>2. /\ k.kind = "order" /\ k.stage = "start" /\ k.seen = j.seen \ {s}
        /\ DOMAIN k = DOMAIN D!Idle
    BY <2>1, <1>2
  <2>3. D!OrderFits(k) /\ D!SaleFits(k) /\ DeskHolds(r, k)
    BY <2>2, <1>2 DEF D!OrderFits, D!SaleFits, DeskHolds
  <2> QED
    BY <2>1, <2>2, <2>3, <1>5, DeskTakesIt, DeskRow
<1> QED
  BY <1>1, <1>3, <1>4, <1>5 DEF D!LockTurn

\* The number that the order counted is still the next one.
LEMMA DeskCommitOrderKeeps ==
  ASSUME D!IInv, NEW r \in Clerks, D!CommitOrder(r)
  PROVE  D!IInv'
<1>1. PICK s : s = saleReq[r].shift
  OBVIOUS
<1>2. s \in Shifts /\ D!HoldsTurn(r, s) /\ saleReq[r].next = Len(turn[s]) + 1
  BY <1>1 DEF D!IInv, D!CommitOrder, D!OrderFits, D!HoldsTurn, D!TurnInOrder
<1>3. /\ turn' = [turn EXCEPT ![s] = Append(turn[s], Len(turn[s]) + 1)]
      /\ saleReq' = [saleReq EXCEPT ![r] = D!Idle]
      /\ shift' = shift /\ sales' = sales /\ counter' = counter
  BY <1>1, <1>2 DEF D!CommitOrder
<1>4. turn \in [Shifts -> Seq(Nat)] /\ turn[s] \in Seq(Nat) /\ Len(turn[s]) \in Nat
  BY <1>2, LenProperties DEF D!IInv, D!NumberTypes
<1>5. /\ turn'[s] = Append(turn[s], Len(turn[s]) + 1)
      /\ \A t \in Shifts \ {s} : turn'[t] = turn[t]
  BY <1>2, <1>3, <1>4
<1>6. saleReq'[r] = D!Idle /\ \A q \in Clerks \ {r} : saleReq'[q] = saleReq[q]
  BY <1>3 DEF D!IInv, D!NumberTypes
<1>7. turn'[s] \in Seq(Nat)
  BY <1>4, <1>5, AppendProperties
<1>8. D!NumberTypes'
  BY <1>3, <1>4, <1>7, <1>5 DEF D!IInv, D!NumberTypes
<1>9. D!TurnInOrder'
  <2>1. \A i \in DOMAIN turn'[s] : turn'[s][i] = i
    <3>1. DOMAIN turn'[s] = 1 .. Len(turn[s]) + 1 /\ DOMAIN turn[s] = 1 .. Len(turn[s])
      BY <1>4, <1>5, <1>7, AppendProperties, LenProperties
    <3>2. /\ \A i \in 1 .. Len(turn[s]) : turn'[s][i] = turn[s][i]
          /\ turn'[s][Len(turn[s]) + 1] = Len(turn[s]) + 1
      BY <1>4, <1>5, AppendProperties
    <3>3. \A i \in 1 .. Len(turn[s]) : turn[s][i] = i
      BY <3>1, <1>2 DEF D!IInv, D!TurnInOrder
    <3>4. \A l \in Nat : \A i \in 1 .. l + 1 : i \in 1 .. l \/ i = l + 1
      OBVIOUS
    <3> QED
      BY <3>1, <3>2, <3>3, <3>4, <1>4
  <2>2. \A q \in Clerks : ~D!HoldsTurn(q, s)'
    BY <1>2, <1>6, DeskIdle DEF D!IInv, D!OneHolder, D!HoldsTurn
  <2>3. \A q \in Clerks, t \in Shifts \ {s} : D!HoldsTurn(q, t)' => D!HoldsTurn(q, t)
    BY <1>6, DeskIdle DEF D!HoldsTurn
  <2>4. ASSUME NEW q \in Clerks, NEW t \in Shifts, D!HoldsTurn(q, t)'
        PROVE  shift'[t].status = "open" /\ saleReq'[q].next = Len(turn'[t]) + 1
    <3>1. t # s /\ q # r /\ D!HoldsTurn(q, t)
      BY <2>2, <2>3, <2>4, <1>6, DeskIdle DEF D!HoldsTurn
    <3> QED
      BY <3>1, <1>3, <1>5, <1>6 DEF D!IInv, D!TurnInOrder
  <2> QED
    BY <2>1, <2>4, <1>5 DEF D!IInv, D!TurnInOrder
<1>10. \A q \in Clerks : DOMAIN saleReq'[q] = DOMAIN D!Idle'
  BY <1>6 DEF D!IInv, D!Idle
<1>11. \A q \in Clerks : D!SaleFits(saleReq[q])'
  BY <1>3, <1>6, DeskIdle DEF D!IInv, D!SaleFits, D!First
<1>12. \A q \in Clerks : D!OrderFits(saleReq[q])'
  BY <1>6, DeskIdle DEF D!IInv, D!OrderFits
<1>13. D!OneHolder'
  BY <1>6, DeskIdle DEF D!IInv, D!OneHolder, D!HoldsCounter, D!HoldsTurn
<1>14. D!InvoicesInOrder'
  BY <1>3 DEF D!IInv, D!InvoicesInOrder, D!Issued
<1> QED
  BY <1>8, <1>9, <1>10, <1>11, <1>12, <1>13, <1>14 DEF D!IInv

\* A shift is opened that nobody has, and closed when no order holds its turn.
LEMMA DeskOpenShiftKeeps ==
  ASSUME D!IInv, NEW s \in Shifts, NEW c, NEW a, D!OpenShift(s, c, a)
  PROVE  D!IInv'
<1>1. /\ shift[s].status = "absent" /\ sales' = sales /\ counter' = counter /\ turn' = turn
      /\ saleReq' = saleReq /\ DOMAIN shift = Shifts
      /\ shift' = [shift EXCEPT ![s] = [@ EXCEPT !.status = "open", !.register = c, !.opening = a]]
  BY DEF D!OpenShift, D!IInv, D!NumberTypes
<1>2. DOMAIN shift' = Shifts /\ \A t \in Shifts \ {s} : shift'[t] = shift[t]
  BY <1>1
<1>3. D!TurnInOrder'
  BY <1>1, <1>2 DEF D!IInv, D!TurnInOrder, D!HoldsTurn
<1> QED
  BY <1>1, <1>2, <1>3 DEF D!IInv, D!NumberTypes, D!SaleFits, D!OrderFits, D!First, D!OneHolder,
       D!HoldsCounter, D!HoldsTurn, D!InvoicesInOrder, D!Issued, D!Idle

LEMMA DeskCommitCloseKeeps ==
  ASSUME D!IInv, NEW r \in Clerks, D!CommitClose(r)
  PROVE  D!IInv'
<1>1. PICK s : s = saleReq[r].shift
  OBVIOUS
<1>2. PICK k : k = [shift[s] EXCEPT !.status = "closed", !.counted = saleReq[r].counted,
                                    !.noted = saleReq[r].noted]
  OBVIOUS
<1>3. /\ sales' = sales /\ counter' = counter /\ turn' = turn
      /\ saleReq' = [saleReq EXCEPT ![r] = D!Idle] /\ D!TurnFree(r, s)
      /\ shift' = [shift EXCEPT ![s] = k] /\ DOMAIN shift = Shifts
  BY <1>1, <1>2 DEF D!CommitClose, D!IInv, D!NumberTypes
<1>4. saleReq'[r] = D!Idle /\ \A q \in Clerks \ {r} : saleReq'[q] = saleReq[q]
  BY <1>3 DEF D!IInv, D!NumberTypes
<1>5. \A t \in Shifts : t # s => shift'[t] = shift[t]
  BY <1>3
<1>6. D!NumberTypes'
  BY <1>3 DEF D!IInv, D!NumberTypes
<1>7. D!TurnInOrder'
  <2>1. ASSUME NEW q \in Clerks, NEW t \in Shifts, D!HoldsTurn(q, t)'
        PROVE  shift'[t].status = "open" /\ saleReq'[q].next = Len(turn'[t]) + 1
    <3>1. q # r /\ D!HoldsTurn(q, t)
      BY <2>1, <1>4, DeskIdle DEF D!HoldsTurn
    <3>2. t # s
      BY <3>1, <1>3 DEF D!TurnFree
    <3> QED
      BY <3>1, <3>2, <1>3, <1>4, <1>5 DEF D!IInv, D!TurnInOrder
  <2> QED
    BY <2>1, <1>3 DEF D!IInv, D!TurnInOrder
<1>8. \A q \in Clerks : DOMAIN saleReq'[q] = DOMAIN D!Idle'
  BY <1>4 DEF D!IInv, D!Idle
<1>9. \A q \in Clerks : D!SaleFits(saleReq[q])' /\ D!OrderFits(saleReq[q])'
  BY <1>3, <1>4, DeskIdle DEF D!IInv, D!SaleFits, D!OrderFits, D!First
<1>10. D!OneHolder'
  BY <1>4, DeskIdle DEF D!IInv, D!OneHolder, D!HoldsCounter, D!HoldsTurn
<1>11. D!InvoicesInOrder'
  BY <1>3 DEF D!IInv, D!InvoicesInOrder, D!Issued
<1> QED
  BY <1>6, <1>7, <1>8, <1>9, <1>10, <1>11 DEF D!IInv

\* Movements, the statements of a close, and what leaves the numbers alone.
LEMMA DeskMovesKeep ==
  ASSUME D!IInv, NEW r \in Clerks,
         \/ \E s \in Shifts, m \in Moves : D!BeginMove(r, s, m)
         \/ D!CommitMove(r)
  PROVE  D!IInv'
<1>1. ASSUME NEW s \in Shifts, NEW m \in Moves, D!BeginMove(r, s, m)
      PROVE  D!IInv'
  <2>1. PICK k : k = [D!Idle EXCEPT !.kind = "move", !.shift = s, !.amount = m]
    OBVIOUS
  <2>2. k.kind = "move" /\ DOMAIN k = DOMAIN D!Idle
    BY <2>1 DEF D!Idle
  <2> QED
    BY <2>1, <2>2, <1>1, DeskBegins, DeskOther DEF D!BeginMove
<1>2. CASE D!CommitMove(r)
  BY <1>2, DeskRollback DEF D!CommitMove, DeskTakes
<1> QED
  BY <1>1, <1>2

LEMMA DeskCloseKeeps ==
  ASSUME D!IInv, NEW r \in Clerks,
         \/ \E s \in Shifts, c \in Counts \cup {D!NoCount}, noted \in BOOLEAN :
              D!BeginClose(r, s, c, noted)
         \/ D!SumPayments(r) \/ D!SumChange(r) \/ D!SumMoves(r)
  PROVE  D!IInv'
<1>1. PICK j : j = saleReq[r]
  OBVIOUS
<1>2. /\ DOMAIN j = DOMAIN D!Idle
      /\ {"kind", "stage", "amount"} \subseteq DOMAIN j
  BY <1>1 DEF D!IInv, D!Idle
<1>3. ASSUME NEW s \in Shifts, NEW c, NEW noted, D!BeginClose(r, s, c, noted)
      PROVE  D!IInv'
  <2>1. PICK k : k = [D!Idle EXCEPT !.kind = "close", !.shift = s, !.counted = c, !.noted = noted,
                        !.amount = shift[s].opening,
                        !.stage = IF c = D!NoCount THEN "done" ELSE "start"]
    OBVIOUS
  <2>2. k.kind = "close" /\ DOMAIN k = DOMAIN D!Idle
    BY <2>1 DEF D!Idle
  <2> QED
    BY <2>1, <2>2, <1>3, DeskBegins, DeskOther DEF D!BeginClose
<1>4. ASSUME NEW stage, NEW amount, j.kind = "close",
             D!Update(r, [j EXCEPT !.stage = stage, !.amount = amount])
      PROVE  D!IInv'
  <2>1. PICK k : k = [j EXCEPT !.stage = stage, !.amount = amount]
    OBVIOUS
  <2>2. k.kind = "close" /\ DOMAIN k = DOMAIN D!Idle
    BY <2>1, <1>2, <1>4
  <2> QED
    BY <2>1, <2>2, <1>4, DeskTakesIt, DeskOther
<1>5. CASE D!SumPayments(r)
  BY <1>1, <1>4, <1>5 DEF D!SumPayments
<1>6. CASE D!SumChange(r)
  BY <1>1, <1>4, <1>6 DEF D!SumChange
<1>7. CASE D!SumMoves(r)
  BY <1>1, <1>4, <1>7, DeskTakesIt, DeskRollback DEF D!SumMoves
<1> QED
  BY <1>3, <1>5, <1>6, <1>7

LEMMA DeskNext == ASSUME D!Billed, D!IInv, [D!Next]_(D!vars) PROVE D!IInv'
<1>1. CASE D!Next
  <2>1. ASSUME NEW s \in Shifts, NEW c \in Registers, NEW a \in Openings, D!OpenShift(s, c, a)
        PROVE  D!IInv'
    BY <2>1, DeskOpenShiftKeeps
  <2>2. ASSUME NEW r \in Clerks, D!Rollback(r) PROVE D!IInv'
    BY <2>2, DeskTakesIt, DeskRollback DEF D!Rollback
  <2> QED
    BY <1>1, <2>1, <2>2, DeskBeginSaleKeeps, DeskBuildSaleKeeps, DeskInsertCounterKeeps,
       DeskCommitSaleKeeps, DeskBeginOrderKeeps, DeskLockTurnKeeps, DeskCommitOrderKeeps,
       DeskMovesKeep, DeskCloseKeeps, DeskCommitCloseKeeps DEF D!Next
<1>2. CASE UNCHANGED D!vars
  BY <1>2 DEF D!vars, D!IInv, D!NumberTypes, D!SaleFits, D!OrderFits, D!First, D!OneHolder,
       D!HoldsCounter, D!HoldsTurn, D!InvoicesInOrder, D!TurnInOrder, D!Issued, D!Idle
<1> QED
  BY <1>1, <1>2

THEOREM DeskInvariance == ASSUME D!Billed PROVE D!Spec => []D!IInv
<1>1. D!Init => D!IInv
  BY DeskStarts
<1>2. D!IInv /\ [D!Next]_(D!vars) => D!IInv'
  BY DeskNext
<1> QED
  BY <1>1, <1>2, PTL DEF D!Spec

\* Whatever requests overlap, and of any kind: the numbers of invoices and of table orders
\* follow the order of the commits (sales/builder.py, invoices/service.py, cash/service.py).
THEOREM NumbersKeepOrder == ASSUME D!Billed PROVE D!Spec => []NumberedInOrder
<1>1. D!IInv => NumberedInOrder
  BY DEF D!IInv, NumberedInOrder
<1> QED
  BY <1>1, DeskInvariance, PTL

-----------------------------------------------------------------------------
(* Images, whatever saves and deletions overlap: first where the rewriting of a URL and the
   migration overlap nothing, then in a migrated database, where there is none. *)

\* The shape of the rows and of what requests remember.
ImageShape ==
  /\ row \in [Rows -> A!Value \cup {Null}]
  /\ stored \subseteq Keys
  /\ keyHolder \in [Keys -> Clerks \cup {Null}]
  /\ imageReq \in [Clerks -> {A!Idle} \cup A!Deciding \cup A!Cleaning]
  /\ \A r \in Clerks :
       imageReq[r] \in A!Deciding /\ imageReq[r].decision = "keep" => imageReq[r].old \in A!Value

ImageInductive == ImageShape /\ A!IInv

\* A reference and a value are told apart from Null.
LEMMA ImageApart ==
  ASSUME A!Distinct
  PROVE  /\ \A v \in A!Value : v # Null /\ A!RefOf(v) = v.ref /\ v.ref \in A!Refs
         /\ A!RefOf(Null) = Null /\ Null \notin Keys /\ Null \notin Clerks
BY DEF A!Distinct, A!Value, A!RefOf, A!Refs

\* What a migration writes shows what was there.
LEMMA ImageSameReference ==
  ASSUME A!Distinct, NEW v \in A!Value \cup {Null}, NEW mode
  PROVE  /\ A!Transformed(v, mode) \in A!Value \cup {Null}
         /\ A!RefOf(A!Transformed(v, mode)) = A!RefOf(v)
BY ImageApart DEF A!Transformed, A!Deletable, A!Value, A!RefOf

LEMMA ImageStarts == ASSUME A!Distinct, A!Init PROVE ImageInductive
<1>1. ImageShape
  <2>1. row \in [Rows -> A!Value \cup {Null}] /\ stored \subseteq Keys
    BY DEF A!Init
  <2> QED
    BY <2>1 DEF A!Init, ImageShape, A!Idle, A!Deciding
<1>2. A!WithoutFile = {}
  BY ImageApart DEF A!Init, A!WithoutFile, A!RefOf
<1> QED
  BY <1>1, <1>2 DEF A!Init, ImageInductive, A!IInv, A!Idle, A!Rewrites

\* In a migrated database no row is written as a URL, and none is being rewritten.
ImageByKey ==
  /\ script = Null
  /\ \A w \in Rows : row[w] # Null => row[w].form = "key"
  /\ \A r \in Clerks : ~A!Rewrites(imageReq[r])

\* What the invariant says of a request that has a lock.
ImageSettled(r) ==
  /\ imageReq[r].stage = "checked" => keyHolder[imageReq[r].sent] = r /\ imageReq[r].sent \in stored
  /\ imageReq[r].stage = "unused"  => keyHolder[imageReq[r].key] = r /\ ~A!Referenced(imageReq[r].key)

\* While no row is being rewritten, that is all it says.
LEMMA ImageStays ==
  ASSUME ImageShape', A!WithoutFile' = {}, script' = Null,
         \A q \in Clerks : ImageSettled(q)' /\ ~A!Rewrites(imageReq[q])'
  PROVE  ImageInductive'
BY DEF ImageInductive, A!IInv, ImageSettled

\* A request in flight is alone if it rewrites, and it keeps the script away.
LEMMA ImageInFlight ==
  ASSUME ImageInductive, NEW r \in Clerks, imageReq[r] # A!Idle
  PROVE  /\ script = Null /\ \A q \in Clerks : ImageSettled(q)
         /\ \A q \in Clerks \ {r} : ~A!Rewrites(imageReq[q])
         /\ \A q \in Clerks : A!Rewrites(imageReq[q]) => q = r
BY DEF ImageInductive, A!IInv, ImageSettled

LEMMA ImageUploadKeeps ==
  ASSUME ImageInductive, NEW k \in Keys, A!Upload(k) PROVE ImageInductive'
<1>1. ImageShape'
  BY DEF A!Upload, ImageInductive, ImageShape
<1>2. A!WithoutFile' = {}
  BY DEF A!Upload, ImageInductive, A!IInv, A!WithoutFile
<1> QED
  BY <1>1, <1>2 DEF A!Upload, ImageInductive, A!IInv, A!Rewrites, A!Referenced

\* A form that would rewrite a row finds nothing else running, and lets nothing else begin.
LEMMA ImageSendKeeps ==
  ASSUME A!Distinct, A!RewritesAlone \/ ImageByKey, ImageInductive,
         NEW r \in Clerks, NEW w \in Rows, NEW sent \in A!Refs,
         NEW base \in A!Refs \cup {Null}, A!Send(r, w, sent, base)
  PROVE  ImageInductive'
<1> DEFINE d == A!Decision(sent, base, A!RefOf(row[w]))
           q == [stage |-> "decided", row |-> w, sent |-> sent, old |-> row[w], decision |-> d]
<1>1. /\ script = Null /\ imageReq[r] = A!Idle /\ d \in {"keep", "apply"}
      /\ imageReq' = [imageReq EXCEPT ![r] = q]
      /\ UNCHANGED <<row, stored, keyHolder, script>>
      /\ \A p \in Clerks : ~A!Rewrites(imageReq[p])
  BY DEF A!Send, A!Decision, A!RewritesAlone, ImageByKey
<1>2. /\ row[w] \in A!Value \cup {Null} /\ q \in A!Deciding
      /\ q.decision = "keep" => q.old \in A!Value
  <2>1. row[w] \in A!Value \cup {Null} /\ q \in A!Deciding
    BY <1>1 DEF ImageInductive, ImageShape, A!Deciding
  <2>2. d = "keep" => sent = A!RefOf(row[w])
    BY DEF A!Decision
  <2> QED
    BY <2>1, <2>2, ImageApart DEF A!Distinct
<1>3. ImageShape'
  BY <1>1, <1>2 DEF ImageInductive, ImageShape
<1>4. imageReq'[r] = q /\ \A p \in Clerks \ {r} : imageReq'[p] = imageReq[p]
  BY <1>1 DEF ImageInductive, ImageShape
<1>5. A!WithoutFile' = {} /\ \A k : A!Referenced(k)' = A!Referenced(k)
  BY <1>1 DEF ImageInductive, A!IInv, A!WithoutFile, A!Referenced
<1>6. \A p \in Clerks : ImageSettled(p)'
  <2>1. ImageSettled(r)'
    BY <1>1, <1>4 DEF ImageSettled
  <2>2. ASSUME NEW p \in Clerks \ {r} PROVE ImageSettled(p)'
    BY <1>1, <1>4, <1>5 DEF ImageInductive, A!IInv, ImageSettled, A!Referenced
  <2> QED
    BY <2>1, <2>2
<1>7. CASE A!Rewrites(q)
  <2>1. d = "keep" /\ row[w].form = "url" /\ sent = A!RefOf(row[w])
    BY <1>7 DEF A!Rewrites, A!Decision
  <2>2. A!Quiet
    <3>1. row[w] # Null
      BY <2>1, <1>2, <1>7, ImageApart DEF A!Rewrites
    <3> QED
      BY <2>1, <3>1 DEF A!Send, A!RewritesAlone, ImageByKey
  <2>3. \A p \in Clerks : A!Rewrites(imageReq[p])' => p = r
    BY <1>1, <1>4 DEF A!Rewrites
  <2> QED
    BY <1>1, <1>3, <1>4, <1>5, <1>6, <2>1, <2>2, <2>3
       DEF ImageInductive, A!IInv, ImageSettled, A!Quiet
<1>8. CASE ~A!Rewrites(q)
  <2>1. \A p \in Clerks : ~A!Rewrites(imageReq[p])'
    BY <1>1, <1>4, <1>8 DEF A!Rewrites
  <2> QED
    BY <1>1, <1>3, <1>5, <1>6, <2>1, ImageStays
<1> QED
  BY <1>7, <1>8

\* The key was free, so nobody else's lock is lost.
LEMMA ImageCheckKeeps ==
  ASSUME A!Distinct, ImageInductive, NEW r \in Clerks, A!Check(r) PROVE ImageInductive'
<1>1. /\ imageReq[r] \in A!Deciding /\ imageReq[r].sent \in Keys /\ imageReq[r].sent \in stored /\ imageReq[r] # A!Idle
      /\ imageReq' = [imageReq EXCEPT ![r].stage = "checked"] /\ UNCHANGED <<row, stored, script>>
      /\ keyHolder[imageReq[r].sent] = Null /\ keyHolder' = [keyHolder EXCEPT ![imageReq[r].sent] = r]
  BY DEF A!Check, A!Exists, A!Locked, ImageInductive, ImageShape, A!Idle, A!Deciding, A!Cleaning
<1>2. /\ imageReq'[r] = [imageReq[r] EXCEPT !.stage = "checked"]
      /\ \A p \in Clerks \ {r} : imageReq'[p] = imageReq[p]
      /\ keyHolder'[imageReq[r].sent] = r /\ \A k \in Keys \ {imageReq[r].sent} : keyHolder'[k] = keyHolder[k]
  BY <1>1 DEF ImageInductive, ImageShape
<1>3. ImageShape'
  <2>1. imageReq'[r] \in A!Deciding
    BY <1>1, <1>2 DEF A!Deciding
  <2> QED
    BY <1>1, <2>1 DEF ImageInductive, ImageShape
<1>4. A!WithoutFile' = {} /\ script' = Null
  BY <1>1, ImageInFlight DEF ImageInductive, A!IInv, A!WithoutFile
<1>5. \A p \in Clerks : ImageSettled(p)' /\ ~A!Rewrites(imageReq[p])'
  <2>1. ImageSettled(r)' /\ ~A!Rewrites(imageReq[r])'
    BY <1>1, <1>2 DEF ImageSettled, A!Rewrites, A!Deciding
  <2>2. ASSUME NEW p \in Clerks \ {r} PROVE ImageSettled(p)' /\ ~A!Rewrites(imageReq[p])'
    <3>1. ImageSettled(p) /\ ~A!Rewrites(imageReq[p])
      BY <1>1, ImageInFlight
    <3>2. /\ imageReq[p].stage = "checked" => imageReq[p].sent \in Keys
          /\ imageReq[p].stage = "unused" => imageReq[p].key \in Keys
      BY <3>1 DEF ImageInductive, ImageShape, ImageSettled, A!Idle, A!Deciding, A!Cleaning
    <3> QED
      BY <1>1, <1>2, <3>1, <3>2, ImageApart DEF ImageSettled, A!Rewrites, A!Referenced
  <2> QED
    BY <2>1, <2>2
<1> QED
  BY <1>3, <1>4, <1>5, ImageStays

\* What a commit makes a row show is a file it holds the lock of, is of another origin, or is
\* what the row showed.
LEMMA ImageCommitKeeps ==
  ASSUME A!Distinct, ImageInductive, NEW r \in Clerks, A!Commit(r) PROVE ImageInductive'
<1> DEFINE q == imageReq[r]
           cleans == q.decision = "apply" /\ A!Deletable(q.old)
           next == IF cleans THEN [stage |-> "clean", key |-> q.old.ref] ELSE A!Idle
           new == [ref |-> q.sent, form |-> "key"]
<1>1. /\ q \in A!Deciding /\ q # A!Idle
      /\ \/ q.stage = "checked"
         \/ q.stage = "decided" /\ (q.decision = "keep" \/ q.sent \in Foreign)
      /\ row' = IF q.decision = "keep" /\ q.old.form = "key" THEN row
                ELSE [row EXCEPT ![q.row] = new]
      /\ keyHolder' = A!Free(r) /\ imageReq' = [imageReq EXCEPT ![r] = next] /\ UNCHANGED <<stored, script>>
  <2>1. /\ \/ q.stage = "checked"
           \/ q.stage = "decided" /\ (q.decision = "keep" \/ q.sent \in Foreign)
        /\ row' = IF q.decision = "keep" /\ q.old.form = "key" THEN row
                  ELSE [row EXCEPT ![q.row] = new]
        /\ keyHolder' = A!Free(r) /\ imageReq' = [imageReq EXCEPT ![r] = next] /\ UNCHANGED <<stored, script>>
    BY DEF A!Commit
  <2>2. q \in A!Deciding /\ q # A!Idle
    BY <2>1 DEF ImageInductive, ImageShape, A!Idle, A!Deciding, A!Cleaning
  <2> QED
    BY <2>1, <2>2
<1>2. next \in {A!Idle} \cup A!Cleaning /\ new \in A!Value /\ new.ref = q.sent
  BY <1>1 DEF A!Deletable, A!Deciding, A!Cleaning, A!Value
<1>3. /\ imageReq'[r] = next /\ \A p \in Clerks \ {r} : imageReq'[p] = imageReq[p]
      /\ \A k \in Keys : keyHolder[k] # r => keyHolder'[k] = keyHolder[k]
  BY <1>1, <1>2 DEF ImageInductive, ImageShape, A!Free
<1>4. ImageShape'
  <2>1. keyHolder' \in [Keys -> Clerks \cup {Null}]
    BY <1>1 DEF ImageInductive, ImageShape, A!Free
  <2>2. row' \in [Rows -> A!Value \cup {Null}]
    BY <1>1, <1>2 DEF ImageInductive, ImageShape
  <2>3. \A p \in Clerks : imageReq'[p] \in A!Deciding /\ imageReq'[p].decision = "keep" => imageReq'[p].old \in A!Value
    <3>1. next \notin A!Deciding
      BY <1>2 DEF A!Idle, A!Deciding, A!Cleaning
    <3> QED
      BY <1>3, <3>1 DEF ImageInductive, ImageShape
  <2> QED
    BY <1>1, <1>2, <2>1, <2>2, <2>3 DEF ImageInductive, ImageShape
<1>5. /\ script' = Null
      /\ \A p \in Clerks \ {r} : ImageSettled(p) /\ ~A!Rewrites(imageReq[p])
  BY <1>1, ImageInFlight
<1>6. \A w \in Rows : \/ A!RefOf(row'[w]) = A!RefOf(row[w])
                      \/ A!RefOf(row'[w]) = q.sent /\ q.sent \in Foreign
                      \/ A!RefOf(row'[w]) = q.sent /\ q.stage = "checked"
  <2>1. CASE q.decision = "keep" /\ q.old.form = "key"
    BY <2>1, <1>1
  <2>2. CASE ~(q.decision = "keep" /\ q.old.form = "key")
    <3>1. \A w \in Rows : row'[w] = IF w = q.row THEN new ELSE row[w]
      BY <1>1, <2>2 DEF ImageInductive, ImageShape
    <3>2. A!RefOf(new) = q.sent
      BY <1>2, ImageApart
    <3>3. CASE q.stage = "decided" /\ q.decision = "keep"
      <4>1. q.old.form = "url"
        BY <2>2, <3>3, <1>1 DEF ImageInductive, ImageShape, A!Value
      <4> QED
        BY <3>1, <3>2, <3>3, <4>1, <1>1 DEF A!Rewrites, ImageInductive, A!IInv
    <3> QED
      BY <1>1, <3>1, <3>2, <3>3
  <2> QED
    BY <2>1, <2>2
<1>7. A!WithoutFile' = {}
  <2>1. q.stage = "checked" => q.sent \in stored
    BY <1>1 DEF ImageInductive, A!IInv
  <2>2. \A w \in Rows : A!RefOf(row[w]) \notin Keys \ stored
    BY DEF ImageInductive, A!IInv, A!WithoutFile
  <2>3. \A w \in Rows : A!RefOf(row'[w]) \notin Keys \ stored
    BY <1>6, <2>1, <2>2 DEF A!Distinct
  <2> QED
    BY <1>1, <2>3 DEF A!WithoutFile
<1>8. \A p \in Clerks : ImageSettled(p)' /\ ~A!Rewrites(imageReq[p])'
  <2>1. ImageSettled(r)' /\ ~A!Rewrites(imageReq[r])'
    BY <1>3 DEF ImageSettled, A!Rewrites, A!Idle
  <2>2. ASSUME NEW p \in Clerks \ {r} PROVE ImageSettled(p)' /\ ~A!Rewrites(imageReq[p])'
    <3>1. /\ imageReq[p].stage = "checked" => imageReq[p].sent \in Keys
          /\ imageReq[p].stage = "unused" => imageReq[p].key \in Keys
      BY <1>5 DEF ImageInductive, ImageShape, ImageSettled, A!Idle, A!Deciding, A!Cleaning
    <3>2. imageReq[p].stage = "unused" => ~A!Referenced(imageReq[p].key)'
      <4>1. q.stage = "checked" => keyHolder[q.sent] = r
        BY <1>1 DEF ImageInductive, A!IInv
      <4> QED
        BY <1>3, <1>5, <1>6, <3>1, <4>1 DEF A!Referenced, ImageSettled, A!Distinct
    <3> QED
      BY <1>1, <1>3, <1>5, <3>1, <3>2 DEF ImageSettled, A!Rewrites, A!Referenced
  <2> QED
    BY <2>1, <2>2
<1> QED
  BY <1>4, <1>5, <1>7, <1>8, ImageStays

\* Nothing refers to the key, and nobody else has its lock.
LEMMA ImageFindUnusedKeeps ==
  ASSUME A!Distinct, ImageInductive, NEW r \in Clerks, A!FindUnused(r) PROVE ImageInductive'
<1>1. /\ imageReq[r] \in A!Cleaning /\ imageReq[r] # A!Idle /\ ~A!Referenced(imageReq[r].key)
      /\ imageReq' = [imageReq EXCEPT ![r].stage = "unused"] /\ UNCHANGED <<row, stored, script>>
      /\ keyHolder[imageReq[r].key] = Null /\ keyHolder' = [keyHolder EXCEPT ![imageReq[r].key] = r]
  BY DEF A!FindUnused, A!Unused, A!Locked, ImageInductive, ImageShape, A!Idle, A!Deciding,
     A!Cleaning
<1>2. /\ imageReq'[r] = [imageReq[r] EXCEPT !.stage = "unused"]
      /\ \A p \in Clerks \ {r} : imageReq'[p] = imageReq[p]
      /\ imageReq[r].key \in Keys /\ keyHolder'[imageReq[r].key] = r
      /\ \A k \in Keys \ {imageReq[r].key} : keyHolder'[k] = keyHolder[k]
  BY <1>1 DEF ImageInductive, ImageShape, A!Cleaning
<1>3. ImageShape'
  <2>1. imageReq'[r] \in A!Cleaning /\ imageReq'[r] \notin A!Deciding
    BY <1>1, <1>2 DEF A!Deciding, A!Cleaning
  <2> QED
    BY <1>1, <1>2, <2>1 DEF ImageInductive, ImageShape
<1>4. A!WithoutFile' = {} /\ script' = Null
  BY <1>1, ImageInFlight DEF ImageInductive, A!IInv, A!WithoutFile
<1>5. \A p \in Clerks : ImageSettled(p)' /\ ~A!Rewrites(imageReq[p])'
  <2>1. ImageSettled(r)' /\ ~A!Rewrites(imageReq[r])'
    BY <1>1, <1>2 DEF ImageSettled, A!Rewrites, A!Cleaning, A!Referenced
  <2>2. ASSUME NEW p \in Clerks \ {r} PROVE ImageSettled(p)' /\ ~A!Rewrites(imageReq[p])'
    <3>1. ImageSettled(p) /\ ~A!Rewrites(imageReq[p])
      BY <1>1, ImageInFlight
    <3>2. /\ imageReq[p].stage = "checked" => imageReq[p].sent \in Keys
          /\ imageReq[p].stage = "unused" => imageReq[p].key \in Keys
      BY <3>1 DEF ImageInductive, ImageShape, ImageSettled, A!Idle, A!Deciding, A!Cleaning
    <3> QED
      BY <1>1, <1>2, <3>1, <3>2, ImageApart DEF ImageSettled, A!Rewrites, A!Referenced
  <2> QED
    BY <2>1, <2>2
<1> QED
  BY <1>3, <1>4, <1>5, ImageStays

\* The file that goes is one that no row shows, and that nobody has checked.
LEMMA ImageDeleteKeeps ==
  ASSUME A!Distinct, ImageInductive, NEW r \in Clerks, A!Delete(r) PROVE ImageInductive'
<1>1. /\ imageReq[r] \in A!Cleaning /\ imageReq[r] # A!Idle /\ imageReq[r].stage = "unused"
      /\ stored' = stored \ {imageReq[r].key} /\ keyHolder' = A!Free(r)
      /\ imageReq' = [imageReq EXCEPT ![r] = A!Idle] /\ UNCHANGED <<row, script>>
  BY DEF A!Delete, ImageInductive, ImageShape, A!Idle, A!Deciding, A!Cleaning
<1>2. /\ imageReq'[r] = A!Idle /\ \A p \in Clerks \ {r} : imageReq'[p] = imageReq[p]
      /\ \A k \in Keys : keyHolder[k] # r => keyHolder'[k] = keyHolder[k]
      /\ imageReq[r].key \in Keys /\ keyHolder[imageReq[r].key] = r /\ ~A!Referenced(imageReq[r].key)
  BY <1>1 DEF ImageInductive, ImageShape, A!IInv, A!Free, A!Cleaning
<1>3. ImageShape'
  <2>1. keyHolder' \in [Keys -> Clerks \cup {Null}] /\ A!Idle \notin A!Deciding
    BY <1>1 DEF ImageInductive, ImageShape, A!Free, A!Idle, A!Deciding
  <2> QED
    BY <1>1, <1>2, <2>1 DEF ImageInductive, ImageShape
<1>4. A!WithoutFile' = {} /\ script' = Null
  BY <1>1, <1>2, ImageInFlight DEF ImageInductive, A!IInv, A!WithoutFile, A!Referenced
<1>5. \A p \in Clerks : ImageSettled(p)' /\ ~A!Rewrites(imageReq[p])'
  <2>1. ImageSettled(r)' /\ ~A!Rewrites(imageReq[r])'
    BY <1>2 DEF ImageSettled, A!Rewrites, A!Idle
  <2>2. ASSUME NEW p \in Clerks \ {r} PROVE ImageSettled(p)' /\ ~A!Rewrites(imageReq[p])'
    <3>1. ImageSettled(p) /\ ~A!Rewrites(imageReq[p])
      BY <1>1, ImageInFlight
    <3>2. /\ imageReq[p].stage = "checked" => imageReq[p].sent \in Keys
          /\ imageReq[p].stage = "unused" => imageReq[p].key \in Keys
      BY <3>1 DEF ImageInductive, ImageShape, ImageSettled, A!Idle, A!Deciding, A!Cleaning
    <3> QED
      BY <1>1, <1>2, <3>1, <3>2 DEF ImageSettled, A!Rewrites, A!Referenced
  <2> QED
    BY <2>1, <2>2
<1> QED
  BY <1>3, <1>4, <1>5, ImageStays

\* A request that fails, or dies, leaves the rows and the files as they are.
LEMMA ImageFailKeeps ==
  ASSUME A!Distinct, ImageInductive, NEW r \in Clerks, A!Fail(r) PROVE ImageInductive'
<1>1. /\ imageReq[r] # A!Idle /\ keyHolder' = A!Free(r)
      /\ imageReq' = [imageReq EXCEPT ![r] = A!Idle] /\ UNCHANGED <<row, stored, script>>
  BY DEF A!Fail
<1>2. /\ imageReq'[r] = A!Idle /\ \A p \in Clerks \ {r} : imageReq'[p] = imageReq[p]
      /\ \A k \in Keys : keyHolder[k] # r => keyHolder'[k] = keyHolder[k]
  BY <1>1 DEF ImageInductive, ImageShape, A!Free
<1>3. ImageShape'
  <2>1. keyHolder' \in [Keys -> Clerks \cup {Null}] /\ A!Idle \notin A!Deciding
    BY <1>1 DEF ImageInductive, ImageShape, A!Free, A!Idle, A!Deciding
  <2> QED
    BY <1>1, <1>2, <2>1 DEF ImageInductive, ImageShape
<1>4. A!WithoutFile' = {} /\ script' = Null
  BY <1>1, ImageInFlight DEF ImageInductive, A!IInv, A!WithoutFile
<1>5. \A p \in Clerks : ImageSettled(p)' /\ ~A!Rewrites(imageReq[p])'
  <2>1. ImageSettled(r)' /\ ~A!Rewrites(imageReq[r])'
    BY <1>2 DEF ImageSettled, A!Rewrites, A!Idle
  <2>2. ASSUME NEW p \in Clerks \ {r} PROVE ImageSettled(p)' /\ ~A!Rewrites(imageReq[p])'
    <3>1. ImageSettled(p) /\ ~A!Rewrites(imageReq[p])
      BY <1>1, ImageInFlight
    <3>2. /\ imageReq[p].stage = "checked" => imageReq[p].sent \in Keys
          /\ imageReq[p].stage = "unused" => imageReq[p].key \in Keys
      BY <3>1 DEF ImageInductive, ImageShape, ImageSettled, A!Idle, A!Deciding, A!Cleaning
    <3> QED
      BY <1>1, <1>2, <3>1, <3>2 DEF ImageSettled, A!Rewrites, A!Referenced
  <2> QED
    BY <2>1, <2>2
<1> QED
  BY <1>3, <1>4, <1>5, ImageStays

\* The script begins when nothing else runs ...
LEMMA ImageScriptReadsKeeps ==
  ASSUME A!Distinct, A!RewritesAlone, ImageInductive, NEW mode \in {"migrate", "revert"},
         A!ScriptReads(mode)
  PROVE  ImageInductive'
<1>1. /\ A!Quiet /\ script' = [mode |-> mode, read |-> row] /\ script'.read = row'
      /\ UNCHANGED <<row, stored, keyHolder, imageReq>>
  BY DEF A!ScriptReads, A!Distinct, A!RewritesAlone
<1>2. ImageShape' /\ A!WithoutFile' = {}
  BY <1>1 DEF ImageInductive, A!IInv, ImageShape, A!WithoutFile
<1>3. \A q \in Clerks : imageReq'[q] = A!Idle
  BY <1>1 DEF A!Quiet
<1> QED
  BY <1>1, <1>2, <1>3 DEF ImageInductive, A!IInv, A!Idle, A!Rewrites

\* ... so that the rows it rewrites show what they showed.
LEMMA ImageScriptCommitsKeeps ==
  ASSUME A!Distinct, ImageInductive, A!ScriptCommits PROVE ImageInductive'
<1>1. /\ script' = Null /\ UNCHANGED <<stored, keyHolder, imageReq>>
      /\ \A q \in Clerks : imageReq[q] = A!Idle
  BY DEF A!ScriptCommits, ImageInductive, A!IInv
<1>2. /\ row' \in [Rows -> A!Value \cup {Null}]
      /\ \A w \in Rows : A!RefOf(row'[w]) = A!RefOf(row[w])
  <2>1. ASSUME NEW w \in Rows
        PROVE  /\ A!Transformed(script.read[w], script.mode) \in A!Value \cup {Null}
               /\ A!RefOf(A!Transformed(script.read[w], script.mode)) = A!RefOf(row[w])
    <3>1. script.read[w] = row[w] /\ row[w] \in A!Value \cup {Null}
      BY DEF A!ScriptCommits, ImageInductive, ImageShape, A!IInv
    <3> QED
      BY <3>1, ImageSameReference
  <2>2. \A w \in Rows : row[w] \in A!Value \cup {Null}
    BY DEF ImageInductive, ImageShape
  <2> QED
    BY <2>1, <2>2 DEF A!ScriptCommits
<1>3. ImageShape' /\ A!WithoutFile' = {}
  BY <1>1, <1>2 DEF ImageInductive, A!IInv, ImageShape, A!WithoutFile
<1> QED
  BY <1>1, <1>3 DEF ImageInductive, A!IInv, A!Idle, A!Rewrites

\* The invariant is established by Init and kept by every request and by the scripts.
THEOREM ImageInvariance == ASSUME A!Distinct, A!RewritesAlone PROVE A!Spec => []A!IInv
<1>1. A!Init => ImageInductive
  BY ImageStarts
<1>2. ImageInductive /\ [A!Next]_(A!vars) => ImageInductive'
  <2> SUFFICES ASSUME ImageInductive, [A!Next]_(A!vars) PROVE ImageInductive'
    OBVIOUS
  <2>1. CASE A!Next
    BY <2>1, ImageUploadKeeps, ImageSendKeeps, ImageCheckKeeps, ImageCommitKeeps,
       ImageFindUnusedKeeps, ImageDeleteKeeps,
       ImageFailKeeps, ImageScriptReadsKeeps, ImageScriptCommitsKeeps DEF A!Next
  <2>2. CASE UNCHANGED A!vars
    BY <2>2 DEF A!vars, ImageInductive, ImageShape, A!IInv, A!WithoutFile, A!Rewrites, A!Referenced
  <2> QED
    BY <2>1, <2>2
<1> QED
  BY <1>1, <1>2, PTL DEF A!Spec, ImageInductive

\* Every image a row shows is a file that exists, for any rows, files and requests, however rows
\* are written: where nothing overlaps a form or a migration that rewrites a URL.
THEOREM NoBrokenImage == ASSUME A!Distinct, A!RewritesAlone PROVE A!Spec => []ReferencedIsStored
<1>1. A!IInv => ReferencedIsStored
  BY DEF A!IInv, ReferencedIsStored, A!ReferencedIsStored
<1> QED
  BY <1>1, ImageInvariance, PTL

\* What a row is given is written as a key, and the migration does not begin.
LEMMA ImageByKeyKeeps ==
  ASSUME A!Distinct, ImageInductive, ImageByKey, A!Next, script' = Null PROVE ImageByKey'
<1>1. CASE \E k \in Keys : A!Upload(k)
  BY <1>1 DEF A!Upload, ImageByKey, A!Rewrites
<1>2. ASSUME NEW r \in Clerks, NEW w \in Rows, NEW sent \in A!Refs, NEW base \in A!Refs \cup {Null},
             A!Send(r, w, sent, base)
      PROVE  ImageByKey'
  <2> DEFINE d == A!Decision(sent, base, A!RefOf(row[w]))
             q == [stage |-> "decided", row |-> w, sent |-> sent, old |-> row[w], decision |-> d]
  <2>1. imageReq' = [imageReq EXCEPT ![r] = q] /\ UNCHANGED row
    BY <1>2 DEF A!Send
  <2>2. d = "keep" => row[w] # Null
    BY ImageApart DEF A!Decision, A!Distinct
  <2>3. ~A!Rewrites(q)
    BY <2>2 DEF A!Rewrites, ImageByKey
  <2> HIDE DEF q
  <2>4. imageReq'[r] = q /\ \A p \in Clerks \ {r} : imageReq'[p] = imageReq[p]
    BY <2>1 DEF ImageInductive, ImageShape
  <2> QED
    BY <2>1, <2>3, <2>4 DEF ImageByKey, A!Rewrites
<1>3. ASSUME NEW r \in Clerks, A!Check(r) \/ A!FindUnused(r) \/ A!Delete(r) \/ A!Fail(r) PROVE ImageByKey'
  <2>1. UNCHANGED row /\ \A p \in Clerks \ {r} : imageReq'[p] = imageReq[p]
    BY <1>3 DEF A!Check, A!FindUnused, A!Delete, A!Fail, ImageInductive, ImageShape
  <2>2. imageReq'[r].stage \in {"checked", "unused", "idle"}
    BY <1>3 DEF A!Check, A!FindUnused, A!Delete, A!Fail, A!Idle, ImageInductive, ImageShape,
                A!Deciding, A!Cleaning
  <2> QED
    BY <2>1, <2>2 DEF ImageByKey, A!Rewrites
<1>4. ASSUME NEW r \in Clerks, A!Commit(r) PROVE ImageByKey'
  <2>1. \A p \in Clerks \ {r} : imageReq'[p] = imageReq[p]
    BY <1>4 DEF A!Commit, ImageInductive, ImageShape
  <2>2. imageReq'[r].stage \in {"clean", "idle"}
    BY <1>4 DEF A!Commit, A!Idle, ImageInductive, ImageShape
  <2>3. \A w \in Rows : row'[w] # Null => row'[w].form = "key"
    BY <1>4 DEF A!Commit, ImageByKey, ImageInductive, ImageShape
  <2> QED
    BY <2>1, <2>2, <2>3 DEF ImageByKey, A!Rewrites
<1>5. ~A!ScriptCommits /\ ~\E mode \in {"migrate", "revert"} : A!ScriptReads(mode)
  BY DEF A!ScriptCommits, A!ScriptReads, ImageByKey, A!Distinct, ImageInductive, ImageShape
<1> QED
  BY <1>1, <1>2, <1>3, <1>4, <1>5 DEF A!Next

\* Once migrated, with no hypothesis on who overlaps whom: every image a row shows is a file that
\* exists, for any rows, files and requests.
THEOREM MigratedImagesHold ==
  ASSUME A!Distinct, A!Migrated PROVE A!MigratedSpec => []ReferencedIsStored
<1>1. A!Init => ImageInductive /\ ImageByKey
  <2>1. ASSUME A!Init PROVE ImageByKey
    BY <2>1 DEF A!Init, A!Migrated, ImageByKey, A!Idle, A!Rewrites
  <2> QED
    BY <2>1, ImageStarts
<1>2. ImageInductive /\ ImageByKey /\ [A!Next /\ script' = Null]_(A!vars) => ImageInductive' /\ ImageByKey'
  <2> SUFFICES ASSUME ImageInductive, ImageByKey, [A!Next /\ script' = Null]_(A!vars)
               PROVE  ImageInductive' /\ ImageByKey'
    OBVIOUS
  <2>1. CASE A!Next /\ script' = Null
    <3>1. ImageByKey'
      BY <2>1, ImageByKeyKeeps
    <3>2. ~A!ScriptCommits /\ ~\E mode \in {"migrate", "revert"} : A!ScriptReads(mode)
      BY <2>1 DEF A!ScriptCommits, A!ScriptReads, ImageByKey, A!Distinct, ImageInductive, ImageShape
    <3> QED
      BY <2>1, <3>1, <3>2, ImageUploadKeeps, ImageSendKeeps, ImageCheckKeeps, ImageCommitKeeps,
         ImageFindUnusedKeeps, ImageDeleteKeeps, ImageFailKeeps DEF A!Next
  <2>2. CASE UNCHANGED A!vars
    BY <2>2 DEF A!vars, ImageInductive, ImageShape, A!IInv, A!WithoutFile, A!Rewrites,
                A!Referenced, ImageByKey
  <2> QED
    BY <2>1, <2>2
<1>3. ImageInductive => ReferencedIsStored
  BY DEF ImageInductive, A!IInv, ReferencedIsStored, A!ReferencedIsStored
<1> QED
  BY <1>1, <1>2, <1>3, PTL DEF A!MigratedSpec

-----------------------------------------------------------------------------
(* The credentials of one account, whatever requests overlap. *)

\* Of each token: whole seconds, and a place in the blocklist that lasts to the last second
\* the token has.
LoginToken(t) ==
  /\ t.minted \in Nat /\ t.iat = t.minted \div 2 /\ t.exp \in Nat
  /\ t.until # Null => t.until \in Nat /\ t.until >= 2 * t.exp - 1

\* The shape of a token, and of what a request remembers.
LoginTokens == [iat : Nat, exp : Nat, minted : Nat, refresh : BOOLEAN, until : Nat \cup {Null}]
LoginRows   == [at : {"new", "login", "refresh", "change", "update", "reset", "done"},
                read : Nat \cup {Null}, links : SUBSET Links]
LoginTimes  == Nat \cup {Null}
LoginLinks  == [issued : LoginTimes, used : LoginTimes, invalidated : LoginTimes]

LoginShape ==
  /\ now \in Nat /\ password \in Nat /\ cut \in Nat \cup {Null} /\ active \in BOOLEAN
  /\ link \in [Links -> LoginLinks] /\ linkHolder \in [Links -> Logins \cup {Null}]
  /\ token \in Seq(LoginTokens) /\ loginReq \in [Logins -> LoginRows]
  /\ \A r \in Logins : loginReq[r].at \in {"change", "update", "reset"} => loginReq[r].read \in Nat

\* A request that resets has its link, and a link that somebody has can still be used; what
\* an UPDATE has found is there.
LoginLocks ==
  /\ \A r \in Logins : \A l \in loginReq[r].links :
       /\ loginReq[r].at = "reset"  => linkHolder[l] = r
       /\ loginReq[r].at = "update" => link[l].issued # Null
  /\ \A l \in Links : /\ linkHolder[l] # Null => Cr!Unsettled(l) /\ link[l].issued # Null
                      /\ link[l].issued = Null => Cr!Unsettled(l)

LoginInductive ==
  LoginShape /\ LoginLocks /\ \A k \in 1 .. Len(token) : LoginToken(token[k])

LEMMA LoginStarts == ASSUME Cr!Lives, Cr!Init PROVE LoginInductive
<1>1. Cr!NoLink \in LoginLinks /\ Cr!Fresh \in LoginRows
  BY DEF Cr!NoLink, Cr!Fresh, LoginLinks, LoginRows, LoginTimes
<1>2. LoginShape
  BY <1>1 DEF Cr!Init, LoginShape, Cr!Fresh
<1>3. LoginLocks
  BY DEF Cr!Init, LoginLocks, Cr!Unsettled, Cr!NoLink, Cr!Fresh
<1>4. Len(token) = 0
  BY DEF Cr!Init
<1> QED
  BY <1>2, <1>3, <1>4 DEF LoginInductive

\* What a login or a renewal mints.
LEMMA LoginMint ==
  ASSUME Cr!Lives, now \in Nat, NEW refresh \in BOOLEAN
  PROVE  Cr!Mint(refresh) \in LoginTokens /\ LoginToken(Cr!Mint(refresh))
<1> DEFINE life == IF refresh THEN RefreshLife ELSE AccessLife
<1>1. life \in Nat
  BY DEF Cr!Lives
<1>2. now \div 2 \in Nat /\ (now + life) \div 2 \in Nat
  BY <1>1
<1>3. Cr!Mint(refresh) = [iat |-> now \div 2, exp |-> (now + life) \div 2, minted |-> now,
                          refresh |-> refresh, until |-> Null]
  BY DEF Cr!Mint, Cr!Second
<1> HIDE DEF life
<1> QED
  BY <1>2, <1>3 DEF LoginTokens, LoginToken

\* Two elements at the end of a sequence.
LEMMA LoginTwo ==
  ASSUME NEW S, NEW s \in Seq(S), NEW a \in S, NEW b \in S
  PROVE  /\ s \o <<a, b>> \in Seq(S) /\ Len(s \o <<a, b>>) = Len(s) + 2
         /\ \A k \in 1 .. Len(s) : (s \o <<a, b>>)[k] = s[k]
         /\ (s \o <<a, b>>)[Len(s) + 1] = a /\ (s \o <<a, b>>)[Len(s) + 2] = b
<1>1. <<a, b>> \in Seq(S) /\ Len(<<a, b>>) = 2
  OBVIOUS
<1> QED
  BY <1>1, ConcatProperties

\* A token that is added disturbs none that there is.
LEMMA LoginAppends ==
  ASSUME LoginInductive, NEW t \in LoginTokens, LoginToken(t)
  PROVE  /\ Append(token, t) \in Seq(LoginTokens)
         /\ \A k \in 1 .. Len(Append(token, t)) : LoginToken(Append(token, t)[k])
BY DEF LoginInductive, LoginShape

\* A request that ends, or begins to do what takes no link.
LEMMA LoginGoes ==
  ASSUME LoginInductive, NEW r \in Logins, NEW at \in {"login", "refresh", "change", "done"},
         NEW read \in Nat \cup {Null}, at = "change" => read \in Nat, Cr!Goes(r, at, read)
  PROVE  /\ loginReq' \in [Logins -> LoginRows] /\ loginReq'[r].at = at
         /\ \A q \in Logins \ {r} : loginReq'[q] = loginReq[q]
         /\ \A q \in Logins : loginReq'[q].at \in {"change", "update", "reset"} => loginReq'[q].read \in Nat
<1>1. [at |-> at, read |-> read, links |-> {}] \in LoginRows
  BY DEF LoginRows
<1> QED
  BY <1>1 DEF Cr!Goes, LoginInductive, LoginShape

\* Steps that leave the links, and who has them, alone.
LEMMA LoginElsewhere ==
  ASSUME LoginInductive, UNCHANGED <<link, linkHolder>>, NEW r \in Logins,
         loginReq'[r].at \notin {"reset", "update"}, \A q \in Logins \ {r} : loginReq'[q] = loginReq[q]
  PROVE  LoginLocks'
BY DEF LoginInductive, LoginLocks, Cr!Unsettled

\* What a session does without a link.
LEMMA LoginSessionKeeps ==
  ASSUME Cr!Lives, LoginInductive, NEW r \in Logins,
         \/ Cr!Login(r) \/ Cr!LoginMints(r) \/ Cr!RefreshMints(r) \/ Cr!ChangeCommits(r)
         \/ \E k \in Cr!Jtis : Cr!Refresh(r, k) \/ Cr!Change(r, k) \/ Cr!Logout(r, k)
  PROVE  LoginInductive' /\ Cr!LinkEndsOnce
<1>1. /\ now \in Nat /\ password \in Nat /\ token \in Seq(LoginTokens)
      /\ \A k \in 1 .. Len(token) : LoginToken(token[k])
  BY DEF LoginInductive, LoginShape
<1>2. CASE \/ Cr!Login(r) \/ \E k \in Cr!Jtis : Cr!Refresh(r, k) \/ Cr!Change(r, k)
  <2>1. PICK at \in {"login", "refresh", "change"}, read \in {now, password} : Cr!Goes(r, at, read)
    BY <1>2 DEF Cr!Login, Cr!Refresh, Cr!Change
  <2>2. UNCHANGED <<now, password, cut, active, link, linkHolder, token>>
    BY <1>2 DEF Cr!Login, Cr!Refresh, Cr!Change
  <2> QED
    BY <1>1, <2>1, <2>2, LoginGoes, LoginElsewhere
       DEF LoginInductive, LoginShape, Cr!LinkEndsOnce, LoginLocks
<1>3. CASE Cr!LoginMints(r)
  <2>1. /\ token' = token \o <<Cr!Mint(FALSE), Cr!Mint(TRUE)>> /\ Cr!Goes(r, "done", Null)
        /\ UNCHANGED <<now, password, cut, active, link, linkHolder>>
    BY <1>3 DEF Cr!LoginMints, Cr!Ends
  <2>2. PICK access \in LoginTokens, renewal \in LoginTokens :
          /\ LoginToken(access) /\ LoginToken(renewal)
          /\ access = Cr!Mint(FALSE) /\ renewal = Cr!Mint(TRUE)
    BY <1>1, LoginMint
  <2>3. /\ token' \in Seq(LoginTokens)
        /\ \A k \in 1 .. Len(token') : LoginToken(token'[k])
    <3>1. token' = token \o <<access, renewal>>
      BY <2>1, <2>2
    <3>2. /\ token' \in Seq(LoginTokens) /\ Len(token') = Len(token) + 2
          /\ \A k \in 1 .. Len(token) : token'[k] = token[k]
          /\ token'[Len(token) + 1] = access /\ token'[Len(token) + 2] = renewal
      BY <1>1, <3>1, LoginTwo
    <3>3. \A k \in 1 .. Len(token') : k \in 1 .. Len(token) \/ k = Len(token) + 1 \/ k = Len(token) + 2
      BY <1>1, <3>2
    <3> QED
      BY <1>1, <2>2, <3>2, <3>3
  <2> QED
    BY <2>1, <2>3, LoginGoes, LoginElsewhere
       DEF LoginInductive, LoginShape, Cr!LinkEndsOnce, LoginLocks
<1>4. CASE Cr!RefreshMints(r)
  <2>1. /\ token' = Append(token, Cr!Mint(FALSE)) /\ Cr!Goes(r, "done", Null)
        /\ UNCHANGED <<now, password, cut, active, link, linkHolder>>
    BY <1>4 DEF Cr!RefreshMints, Cr!Ends
  <2>2. PICK access \in LoginTokens : LoginToken(access) /\ access = Cr!Mint(FALSE)
    BY <1>1, LoginMint
  <2>3. /\ token' \in Seq(LoginTokens)
        /\ \A k \in 1 .. Len(token') : LoginToken(token'[k])
    BY <2>1, <2>2, LoginAppends
  <2> QED
    BY <2>1, <2>3, LoginGoes, LoginElsewhere
       DEF LoginInductive, LoginShape, Cr!LinkEndsOnce, LoginLocks
<1>5. CASE Cr!ChangeCommits(r)
  <2>1. /\ password' = password + 1 /\ cut' = loginReq[r].read /\ loginReq[r].read \in Nat
        /\ Cr!Goes(r, "done", Null) /\ UNCHANGED <<now, active, link, linkHolder, token>>
    BY <1>5 DEF Cr!ChangeCommits, Cr!Changes, Cr!Ends, LoginInductive, LoginShape
  <2>2. LoginLocks' /\ Cr!LinkEndsOnce
    BY <2>1, LoginGoes, LoginElsewhere DEF LoginInductive, LoginLocks, Cr!LinkEndsOnce
  <2>3. /\ now' \in Nat /\ password' \in Nat /\ cut' \in Nat /\ token' \in Seq(LoginTokens)
        /\ active' \in BOOLEAN
    BY <1>1, <2>1 DEF LoginInductive, LoginShape
  <2>4. LoginShape'
    BY <2>1, <2>3, LoginGoes DEF LoginInductive, LoginShape
  <2> QED
    BY <1>1, <2>1, <2>2, <2>4 DEF LoginInductive
<1>6. ASSUME NEW k \in Cr!Jtis, Cr!Logout(r, k) PROVE LoginInductive' /\ Cr!LinkEndsOnce
  <2>1. /\ token' = [token EXCEPT ![k].until = now + 2 * Cr!Ttl(k)] /\ Cr!Goes(r, "done", Null)
        /\ UNCHANGED <<now, password, cut, active, link, linkHolder>>
    BY <1>6 DEF Cr!Logout, Cr!Ends
  <2> DEFINE until == now + 2 * Cr!Ttl(k)
             new == [token[k] EXCEPT !.until = until]
  <2>2. k \in 1 .. Len(token) /\ token[k] \in LoginTokens /\ token[k].exp \in Nat
    <3>1. k \in 1 .. Len(token) /\ token[k] \in LoginTokens
      BY <1>1 DEF Cr!Jtis
    <3> QED
      BY <3>1 DEF LoginTokens
  <2>3. until \in Nat /\ until >= 2 * token[k].exp - 1
    <3> DEFINE exp == token[k].exp
    <3>1. now \in Nat /\ exp \in Nat
      BY <1>1, <2>2
    <3>2. \/ (2 * exp - now) \div 2 < 1 /\ Cr!Ttl(k) = 1
          \/ (2 * exp - now) \div 2 >= 1 /\ Cr!Ttl(k) = (2 * exp - now) \div 2
      BY <3>1 DEF Cr!Ttl
    <3> HIDE DEF exp
    <3>3. (2 * exp - now) \div 2 \in Int /\ 2 * ((2 * exp - now) \div 2) >= 2 * exp - now - 1
      BY <3>1
    <3>4. now + 2 * Cr!Ttl(k) \in Nat /\ now + 2 * Cr!Ttl(k) >= 2 * exp - 1
      BY <3>1, <3>2, <3>3
    <3> QED
      BY <3>4 DEF exp
  <2> HIDE DEF until
  <2>4. new \in LoginTokens /\ LoginToken(new)
    BY <1>1, <2>2, <2>3 DEF LoginTokens, LoginToken
  <2>5. /\ token' = [token EXCEPT ![k] = new]
    BY <2>1 DEF until
  <2>6. /\ token' \in Seq(LoginTokens)
        /\ \A j \in 1 .. Len(token') : LoginToken(token'[j])
    BY <1>1, <2>2, <2>4, <2>5
  <2> QED
    BY <2>1, <2>6, LoginGoes, LoginElsewhere
       DEF LoginInductive, LoginShape, Cr!LinkEndsOnce, LoginLocks
<1> QED
  BY <1>2, <1>3, <1>4, <1>5, <1>6

\* Asking for another link touches none that was used, nor one that somebody has.
LEMMA LoginForgotKeeps ==
  ASSUME Cr!Lives, LoginInductive, NEW r \in Logins,
         Cr!Forgot(r) \/ \E l \in Links : Cr!ForgotCommits(r, l)
  PROVE  LoginInductive' /\ Cr!LinkEndsOnce
<1>1. CASE Cr!Forgot(r)
  <2> DEFINE q == [at |-> "update", read |-> now,
                   links |-> {l \in Links : link[l].issued # Null /\ Cr!Unsettled(l)}]
  <2>1. /\ loginReq' = [loginReq EXCEPT ![r] = q] /\ q.at = "update" /\ q.read \in Nat
        /\ q \in LoginRows
        /\ UNCHANGED <<now, password, cut, active, link, linkHolder, token>>
    BY <1>1 DEF Cr!Forgot, LoginInductive, LoginShape, LoginRows
  <2>2. \A l \in q.links : l \in Links /\ link[l].issued # Null
    OBVIOUS
  <2> HIDE DEF q
  <2>3. LoginShape'
    BY <2>1 DEF LoginInductive, LoginShape
  <2>4. loginReq'[r] = q /\ \A p \in Logins \ {r} : loginReq'[p] = loginReq[p]
    BY <2>1 DEF LoginInductive, LoginShape
  <2>5. LoginLocks'
    BY <2>1, <2>2, <2>4 DEF LoginInductive, LoginLocks, Cr!Unsettled
  <2> QED
    BY <2>1, <2>3, <2>5 DEF LoginInductive, LoginLocks, Cr!LinkEndsOnce
<1>2. ASSUME NEW l \in Links, Cr!ForgotCommits(r, l) PROVE LoginInductive' /\ Cr!LinkEndsOnce
  <2> DEFINE q == loginReq[r]
  <2>1. /\ q.at = "update" /\ \A k \in q.links : linkHolder[k] = Null
        /\ q.read \in Nat /\ q.links \subseteq Links /\ link[l].issued = Null
        /\ link' = [k \in Links |->
             IF k \in Cr!Still(q.links) THEN [link[k] EXCEPT !.invalidated = q.read]
             ELSE IF k = l THEN [Cr!NoLink EXCEPT !.issued = q.read] ELSE link[k]]
        /\ Cr!Goes(r, "done", Null)
        /\ UNCHANGED <<now, password, cut, active, linkHolder, token>>
    BY <1>2 DEF Cr!ForgotCommits, Cr!Ends, LoginInductive, LoginShape, LoginRows
  <2>2. ASSUME NEW k \in Links
        PROVE  /\ link'[k] \in LoginLinks
               /\ ~Cr!Unsettled(k) => link'[k] = link[k] /\ linkHolder[k] = Null
               /\ linkHolder[k] # Null => link'[k] = link[k]
               /\ link'[k].issued = Null => Cr!Unsettled(k)'
               /\ link[k].issued # Null => link'[k].issued = link[k].issued
    <3>1. /\ link[k] \in LoginLinks /\ (linkHolder[k] # Null => Cr!Unsettled(k) /\ link[k].issued # Null)
          /\ (link[k].issued = Null => Cr!Unsettled(k)) /\ (link[l].issued = Null => Cr!Unsettled(l))
      BY DEF LoginInductive, LoginShape, LoginLocks
    <3>2. CASE k \in Cr!Still(q.links)
      <4>1. /\ link'[k] = [link[k] EXCEPT !.invalidated = q.read] /\ k \in q.links
            /\ Cr!Unsettled(k) /\ link[k].issued # Null
        BY <2>1, <3>2 DEF Cr!Still, LoginInductive, LoginLocks
      <4>2. link'[k] \in LoginLinks
        BY <2>1, <3>1, <4>1 DEF LoginLinks, LoginTimes
      <4>3. link'[k].issued = link[k].issued
        BY <3>1, <4>1 DEF LoginLinks
      <4> QED
        BY <2>1, <3>1, <4>1, <4>2, <4>3
    <3>3. CASE k \notin Cr!Still(q.links) /\ k = l
      <4>1. link'[k] = [issued |-> q.read, used |-> Null, invalidated |-> Null]
        BY <2>1, <3>3 DEF Cr!NoLink
      <4> QED
        BY <2>1, <3>1, <3>3, <4>1 DEF LoginLinks, LoginTimes, Cr!Unsettled
    <3>4. CASE k \notin Cr!Still(q.links) /\ k # l
      BY <2>1, <3>1, <3>4 DEF Cr!Unsettled
    <3> QED
      BY <3>2, <3>3, <3>4
  <2>3. /\ link' \in [Links -> LoginLinks] /\ Cr!LinkEndsOnce
    BY <2>1, <2>2 DEF Cr!LinkEndsOnce
  <2>4. LoginLocks'
    <3>1. /\ \A l1 \in Links : /\ linkHolder'[l1] # Null => Cr!Unsettled(l1)' /\ link'[l1].issued # Null
                               /\ link'[l1].issued = Null => Cr!Unsettled(l1)'
      BY <2>1, <2>2, ZenonT(60) DEF LoginInductive, LoginLocks, Cr!Unsettled
    <3>2. ASSUME NEW p \in Logins, NEW k \in loginReq'[p].links
          PROVE  /\ loginReq'[p].at = "reset"  => linkHolder'[k] = p
                 /\ loginReq'[p].at = "update" => link'[k].issued # Null
      <4>1. CASE p = r
        BY <2>1, <4>1, LoginGoes
      <4>2. CASE p # r
        <5>1. loginReq'[p] = loginReq[p] /\ k \in Links
          BY <2>1, <3>2, <4>2, LoginGoes DEF LoginInductive, LoginShape, LoginRows
        <5> QED
          BY <2>1, <2>2, <3>2, <5>1 DEF LoginInductive, LoginLocks
      <4> QED
        BY <4>1, <4>2
    <3> QED
      BY <3>1, <3>2 DEF LoginLocks
  <2> QED
    BY <2>1, <2>3, <2>4, LoginGoes DEF LoginInductive, LoginShape
<1> QED
  BY <1>1, <1>2

\* The row lock of a link keeps it for the one who changes the password with it.
LEMMA LoginResetKeeps ==
  ASSUME Cr!Lives, LoginInductive, NEW r \in Logins,
         Cr!ResetCommits(r) \/ \E l \in Links : Cr!Reset(r, l)
  PROVE  LoginInductive' /\ Cr!LinkEndsOnce
<1>1. ASSUME NEW l \in Links, Cr!Reset(r, l) PROVE LoginInductive' /\ Cr!LinkEndsOnce
  <2>1. /\ linkHolder[l] = Null /\ loginReq[r].at = "new"
        /\ UNCHANGED <<now, password, cut, active, link, token>>
    BY <1>1 DEF Cr!Reset, Cr!Free
  <2>2. CASE ~Cr!Live(l)
    <3>1. Cr!Goes(r, "done", Null) /\ UNCHANGED linkHolder
      BY <1>1, <2>2 DEF Cr!Reset, Cr!Ends
    <3> QED
      BY <2>1, <3>1, LoginGoes, LoginElsewhere
         DEF LoginInductive, LoginShape, Cr!LinkEndsOnce, LoginLocks
  <2>3. CASE Cr!Live(l)
    <3> DEFINE q == [at |-> "reset", read |-> now, links |-> {l}]
    <3>1. /\ linkHolder' = [linkHolder EXCEPT ![l] = r] /\ loginReq' = [loginReq EXCEPT ![r] = q]
          /\ Cr!Unsettled(l) /\ link[l].issued # Null
      BY <1>1, <2>3 DEF Cr!Reset, Cr!Live
    <3>2. q \in LoginRows /\ q.at = "reset" /\ q.read \in Nat /\ q.links = {l}
      BY DEF LoginInductive, LoginShape, LoginRows
    <3> HIDE DEF q
    <3>3. /\ loginReq'[r] = q /\ \A p \in Logins \ {r} : loginReq'[p] = loginReq[p]
          /\ linkHolder'[l] = r /\ \A k \in Links \ {l} : linkHolder'[k] = linkHolder[k]
      BY <3>1 DEF LoginInductive, LoginShape
    <3>4. LoginShape'
      BY <2>1, <3>1, <3>2 DEF LoginInductive, LoginShape
    <3>5. ASSUME NEW p \in Logins, NEW k \in loginReq'[p].links
          PROVE  /\ loginReq'[p].at = "reset"  => linkHolder'[k] = p
                 /\ loginReq'[p].at = "update" => link'[k].issued # Null
      <4>1. CASE p = r
        BY <3>2, <3>3, <3>5, <4>1
      <4>2. CASE p # r
        <5>1. loginReq'[p] = loginReq[p] /\ k \in Links
          BY <3>3, <3>5, <4>2 DEF LoginInductive, LoginShape, LoginRows
        <5> QED
          BY <2>1, <3>3, <3>5, <4>2, <5>1 DEF LoginInductive, LoginLocks, Cr!Lives
      <4> QED
        BY <4>1, <4>2
    <3>6. \A k \in Links : /\ linkHolder'[k] # Null => Cr!Unsettled(k)' /\ link'[k].issued # Null
                           /\ link'[k].issued = Null => Cr!Unsettled(k)'
      BY <2>1, <3>1, <3>3 DEF LoginInductive, LoginLocks, Cr!Unsettled
    <3> QED
      BY <2>1, <3>4, <3>5, <3>6 DEF LoginInductive, LoginLocks, Cr!LinkEndsOnce
  <2> QED
    BY <2>2, <2>3
<1>2. CASE Cr!ResetCommits(r)
  <2> DEFINE q == loginReq[r]
  <2>1. /\ q.at = "reset" /\ q.read \in Nat /\ q.links \subseteq Links
        /\ link' = [l \in Links |-> IF l \in q.links THEN [link[l] EXCEPT !.used = q.read] ELSE link[l]]
        /\ linkHolder' = [l \in Links |-> IF l \in q.links THEN Null ELSE linkHolder[l]]
        /\ password' = password + 1 /\ cut' = q.read /\ Cr!Goes(r, "done", Null)
        /\ UNCHANGED <<now, active, token>>
    BY <1>2 DEF Cr!ResetCommits, Cr!Changes, Cr!Ends, LoginInductive, LoginShape, LoginRows
  <2>2. ASSUME NEW l \in Links
        PROVE  /\ link'[l] \in LoginLinks /\ link'[l].issued = link[l].issued
               /\ linkHolder'[l] # Null => link'[l] = link[l] /\ linkHolder'[l] = linkHolder[l]
               /\ link'[l].issued = Null => Cr!Unsettled(l)'
               /\ ~Cr!Unsettled(l) => link'[l] = link[l] /\ linkHolder[l] = Null
               /\ linkHolder'[l] = Null \/ linkHolder'[l] = linkHolder[l]
    <3>1. /\ link[l] \in LoginLinks /\ (linkHolder[l] # Null => Cr!Unsettled(l) /\ link[l].issued # Null)
          /\ (link[l].issued = Null => Cr!Unsettled(l))
      BY DEF LoginInductive, LoginShape, LoginLocks
    <3>2. CASE l \in q.links
      <4>1. link'[l] = [link[l] EXCEPT !.used = q.read] /\ linkHolder'[l] = Null /\ linkHolder[l] = r
        BY <2>1, <3>2 DEF LoginInductive, LoginLocks
      <4>2. link'[l] \in LoginLinks /\ link'[l].issued = link[l].issued
        BY <2>1, <3>1, <4>1 DEF LoginLinks, LoginTimes
      <4>3. Cr!Unsettled(l) /\ link[l].issued # Null
        BY <3>1, <4>1 DEF Cr!Lives
      <4> QED
        BY <4>1, <4>2, <4>3
    <3>3. CASE l \notin q.links
      BY <2>1, <3>1, <3>3 DEF Cr!Unsettled
    <3> QED
      BY <3>2, <3>3
  <2>3. ASSUME NEW p \in Logins, NEW k \in loginReq'[p].links
        PROVE  /\ loginReq'[p].at = "reset"  => linkHolder'[k] = p
               /\ loginReq'[p].at = "update" => link'[k].issued # Null
    <3>1. CASE p = r
      BY <2>1, <3>1, LoginGoes
    <3>2. CASE p # r
      <4>1. loginReq'[p] = loginReq[p] /\ k \in Links
        BY <2>1, <2>3, <3>2, LoginGoes DEF LoginInductive, LoginShape, LoginRows
      <4>2. loginReq[p].at = "reset" => linkHolder[k] = p /\ k \notin q.links
        BY <2>1, <2>3, <3>2, <4>1 DEF LoginInductive, LoginLocks
      <4> QED
        BY <2>1, <2>2, <2>3, <4>1, <4>2 DEF LoginInductive, LoginLocks
    <3> QED
      BY <3>1, <3>2
  <2>4. LoginLocks'
    <3>1. \A l \in Links : /\ linkHolder'[l] # Null => Cr!Unsettled(l)' /\ link'[l].issued # Null
                           /\ link'[l].issued = Null => Cr!Unsettled(l)'
      BY <2>2 DEF LoginInductive, LoginLocks, Cr!Unsettled
    <3> QED
      BY <2>3, <3>1 DEF LoginLocks
  <2>5. LoginShape'
    <3>1. link' \in [Links -> LoginLinks] /\ cut' \in Nat
      BY <2>1, <2>2
    <3>2. linkHolder' \in [Links -> Logins \cup {Null}]
      BY <2>1 DEF LoginInductive, LoginShape
    <3>3. password' \in Nat
      BY <2>1 DEF LoginInductive, LoginShape
    <3> QED
      BY <2>1, <3>1, <3>2, <3>3, LoginGoes DEF LoginInductive, LoginShape
  <2>6. Cr!LinkEndsOnce
    BY <2>2 DEF Cr!LinkEndsOnce
  <2> QED
    BY <2>1, <2>4, <2>5, <2>6 DEF LoginInductive
<1> QED
  BY <1>1, <1>2

\* A request that dies gives back the links it has, as they were.
LEMMA LoginDiesKeeps ==
  ASSUME Cr!Lives, LoginInductive, NEW r \in Logins, Cr!Dies(r)
  PROVE  LoginInductive' /\ Cr!LinkEndsOnce
<1>1. /\ linkHolder' = [l \in Links |-> IF linkHolder[l] = r THEN Null ELSE linkHolder[l]]
      /\ Cr!Goes(r, "done", Null) /\ UNCHANGED <<now, password, cut, active, link, token>>
  BY DEF Cr!Dies, Cr!Ends
<1>2. LoginShape'
  BY <1>1, LoginGoes DEF LoginInductive, LoginShape
<1>3. ASSUME NEW p \in Logins, NEW k \in loginReq'[p].links
      PROVE  /\ loginReq'[p].at = "reset"  => linkHolder'[k] = p
             /\ loginReq'[p].at = "update" => link'[k].issued # Null
  <2>1. CASE p = r
    BY <1>1, <2>1, LoginGoes
  <2>2. CASE p # r
    <3>1. loginReq'[p] = loginReq[p] /\ k \in Links
      BY <1>1, <1>3, <2>2, LoginGoes DEF LoginInductive, LoginShape, LoginRows
    <3> QED
      BY <1>1, <1>3, <2>2, <3>1 DEF LoginInductive, LoginLocks
  <2> QED
    BY <2>1, <2>2
<1>4. LoginLocks' /\ Cr!LinkEndsOnce
  BY <1>1, <1>3 DEF LoginInductive, LoginLocks, Cr!Unsettled, Cr!LinkEndsOnce
<1> QED
  BY <1>1, <1>2, <1>4 DEF LoginInductive

\* Time passes, or the account is switched off, or on.
LEMMA LoginAroundKeeps ==
  ASSUME LoginInductive, Cr!Tick \/ Cr!Toggle \/ UNCHANGED Cr!vars
  PROVE  LoginInductive' /\ Cr!LinkEndsOnce
<1>1. /\ now' \in Nat /\ active' \in BOOLEAN
      /\ UNCHANGED <<password, cut, link, linkHolder, token, loginReq>>
  <2>1. CASE Cr!Tick
    BY <2>1 DEF Cr!Tick, LoginInductive, LoginShape
  <2>2. CASE Cr!Toggle
    <3>1. active' \in BOOLEAN
      BY <2>2, Zenon DEF Cr!Toggle
    <3> QED
      BY <2>2, <3>1 DEF Cr!Toggle, LoginInductive, LoginShape
  <2>3. CASE UNCHANGED Cr!vars
    BY <2>3 DEF Cr!vars, LoginInductive, LoginShape
  <2> QED
    BY <2>1, <2>2, <2>3
<1>2. LoginShape' /\ LoginLocks' /\ Cr!LinkEndsOnce
  BY <1>1 DEF LoginInductive, LoginShape, LoginLocks, Cr!Unsettled, Cr!LinkEndsOnce
<1> QED
  BY <1>1, <1>2 DEF LoginInductive

LEMMA LoginNext ==
  ASSUME Cr!Lives, LoginInductive, [Cr!Next]_(Cr!vars)
  PROVE  LoginInductive' /\ Cr!LinkEndsOnce
<1>1. CASE UNCHANGED Cr!vars \/ Cr!Tick \/ Cr!Toggle
  BY <1>1, LoginAroundKeeps
<1>2. CASE Cr!Next /\ ~(Cr!Tick \/ Cr!Toggle)
  BY <1>2, LoginSessionKeeps, LoginForgotKeeps, LoginResetKeeps, LoginDiesKeeps DEF Cr!Next
<1> QED
  BY <1>1, <1>2

\* A token minted at or after the cut has an iat that is not before its second.
LEMMA LoginFresh == ASSUME LoginInductive PROVE Cr!FreshLoginHolds
<1> SUFFICES ASSUME NEW k \in Cr!Jtis, active, Cr!Valid(k), cut # Null, token[k].minted >= cut
             PROVE  Cr!Accepted(k)
  BY DEF Cr!FreshLoginHolds
<1>1. LoginToken(token[k]) /\ cut \in Nat
  BY DEF LoginInductive, LoginShape, Cr!Jtis
<1>2. PICK m \in Nat, c \in Nat : m = token[k].minted /\ c = cut
  BY <1>1 DEF LoginToken
<1>3. m >= c => m \div 2 >= c \div 2
  OBVIOUS
<1>4. ~Cr!Revoked(k)
  BY <1>1, <1>2, <1>3 DEF LoginToken, Cr!Revoked, Cr!CutOver, Cr!Second
<1> QED
  BY <1>4 DEF Cr!Accepted

\* A token minted two half seconds before the cut has an iat of an earlier second.
LEMMA LoginOldEnd == ASSUME LoginInductive PROVE Cr!OldSessionsEnd
<1> SUFFICES ASSUME NEW k \in Cr!Jtis, cut # Null, token[k].minted + 2 <= cut
             PROVE  ~Cr!Accepted(k)
  BY DEF Cr!OldSessionsEnd
<1>1. LoginToken(token[k]) /\ cut \in Nat
  BY DEF LoginInductive, LoginShape, Cr!Jtis
<1>2. PICK m \in Nat, c \in Nat : m = token[k].minted /\ c = cut
  BY <1>1 DEF LoginToken
<1>3. m + 2 <= c => m \div 2 < c \div 2
  OBVIOUS
<1>4. Cr!Revoked(k)
  BY <1>1, <1>2, <1>3 DEF LoginToken, Cr!Revoked, Cr!CutOver, Cr!Second
<1> QED
  BY <1>4 DEF Cr!Accepted

\* The blocklist keeps a token to the last whole second of its life.
LEMMA LoginStaysOut == ASSUME LoginInductive PROVE Cr!LoggedOutStaysOut
<1> SUFFICES ASSUME NEW k \in Cr!Jtis, token[k].until # Null, now + 2 <= 2 * token[k].exp
             PROVE  ~Cr!Accepted(k)
  BY DEF Cr!LoggedOutStaysOut
<1>1. LoginToken(token[k]) /\ now \in Nat
  BY DEF LoginInductive, LoginShape, Cr!Jtis
<1>2. now < token[k].until
  BY <1>1 DEF LoginToken
<1> QED
  BY <1>2 DEF Cr!Accepted, Cr!Valid, Cr!Blocked

\* Whatever logins, renewals, changes and resets overlap, a link is consumed once, whoever logs in
\* after a change keeps the session, and a token minted a second before the last change, or logged
\* out, is not accepted.
THEOREM CredentialsAreSafe == ASSUME Cr!Lives PROVE Cr!Spec => CredentialsHold
<1>1. Cr!Init => LoginInductive
  BY LoginStarts
<1>2. LoginInductive /\ [Cr!Next]_(Cr!vars) =>
        /\ LoginInductive'
        /\ [/\ Cr!LinkEndsOnce /\ Cr!FreshLoginHolds' /\ Cr!OldSessionsEnd'
            /\ Cr!LoggedOutStaysOut']_(Cr!vars)
  <2>1. LoginInductive => Cr!FreshLoginHolds /\ Cr!OldSessionsEnd /\ Cr!LoggedOutStaysOut
    BY LoginFresh, LoginOldEnd, LoginStaysOut
  <2>2. LoginInductive' => Cr!FreshLoginHolds' /\ Cr!OldSessionsEnd' /\ Cr!LoggedOutStaysOut'
    BY <2>1, PTL
  <2> QED
    BY <2>2, LoginNext
<1> QED
  BY <1>1, <1>2, PTL DEF Cr!Spec, CredentialsHold, Cr!CredentialsHold

-----------------------------------------------------------------------------
(* The tenant, provided that of the requests that change an account, switch a method off or
   edit a plan, none overlaps another request. *)

\* The instance has its own names for what is finite, and how many there are.
LEMMA TenantSets == \A S : /\ T!IsFiniteSet(S) <=> IsFiniteSet(S)
                          /\ T!Cardinality(S) = Cardinality(S)
BY DEF T!IsFiniteSet, IsFiniteSet, T!Cardinality, Cardinality

\* What a request in flight remembers.
TenantRows ==
  {T!Idle}
    \cup [kind : {"create"}, stage : {"locked"}, what : T!Resources, of : Emails \cup Methods \cup {Null}]
    \cup [kind : {"create"}, stage : {"counted", "allowed"}, what : T!Resources,
          of : Emails \cup Methods \cup {Null}, n : Int]
    \cup [kind : {"resend"}, of : Emails, stage : {1, 2}, n : Int]
    \cup [kind : {"manage"}, of : Emails, field : {"active", "admin"}, to : BOOLEAN]
    \cup [kind : {"off"}, of : Methods]

TenantShape ==
  /\ user \in [Emails -> T!Account \cup {Null}] /\ invited \subseteq Emails
  /\ mailed \in [Emails -> SUBSET Int] /\ (\A e \in Emails : IsFiniteSet(mailed[e]))
  /\ letter \in [Emails -> Clerks \cup {Null}]
  /\ invitePassword \in [Emails -> Int] /\ DOMAIN method = Methods
  /\ tables \in Nat /\ limit \in [T!Resources -> Int]
  /\ tenantHolder \in Clerks \cup {Null} /\ tenantReq \in [Clerks -> TenantRows]
  /\ \A r \in Clerks :
       /\ tenantReq[r].kind = "create" /\ tenantReq[r].what = "usuarios" => tenantReq[r].of \in Emails
       /\ tenantReq[r].kind = "create" /\ tenantReq[r].what = "metodos_pago_activos" =>
            tenantReq[r].of \in Methods

\* Whoever creates has the tenant's row: what it has counted is what there is, and what it has
\* been allowed is still within the plan, and still new.
TenantCounts(r) ==
  LET q == tenantReq[r]
  IN  q.kind = "create" =>
        /\ tenantHolder = r
        /\ q.stage \in {"counted", "allowed"} =>
             /\ q.what = "usuarios" => q.n = Cardinality(T!Users)
             /\ q.what = "mesas" => q.n = tables
        /\ q.stage = "allowed" =>
             /\ T!Within(q.what, q.n + T!Pending(q.what))
             /\ q.what = "usuarios" => q.of \notin T!Users

\* Whoever resends an invitation has it, and what it saves was mailed.
TenantResends(r) ==
  LET q == tenantReq[r]
  IN  q.kind = "resend" =>
        /\ q.of \in invited /\ letter[q.of] = r /\ (q.stage = 2 => q.n \in mailed[q.of])

\* Whoever changes an account, or switches a method off, does so alone, and somebody, or
\* something, remains.
TenantNobodyElse(r) == \A p \in Clerks \ {r} : tenantReq[p] = T!Idle

TenantRemains(r) ==
  LET q == tenantReq[r]
  IN  /\ q.kind \in {"manage", "off"} => TenantNobodyElse(r)
      /\ q.kind = "manage" => /\ q.of \in T!Users
                              /\ \/ q.field = "active" /\ q.to
                                 \/ \E b \in Emails \ {q.of} : T!Admin(b)
      /\ q.kind = "off" => \E m \in Methods \ {q.of} : method[m] = "active"

TenantAsIs == T!InvitedAreNew /\ T!InvitedCanEnter /\ T!AnAdminRemains /\ T!AMethodRemains

TenantInductive ==
  /\ TenantShape /\ TenantAsIs
  /\ \A r \in Clerks : TenantCounts(r) /\ TenantResends(r) /\ TenantRemains(r)

LEMMA TenantStarts == ASSUME T!Allotted, T!Init PROVE TenantInductive
<1>1. TenantShape
  <2>1. user \in [Emails -> T!Account \cup {Null}]
    BY DEF T!Init, T!Account
  <2>2. method \in [Methods -> {"absent", "active"}] /\ limit \in [T!Resources -> Int]
    BY DEF T!Init, T!Allotted
  <2>3. tenantReq \in [Clerks -> TenantRows] /\ \A r \in Clerks : tenantReq[r].kind = "idle"
    BY DEF T!Init, TenantRows, T!Idle
  <2>4. /\ mailed \in [Emails -> SUBSET Int] /\ \A e \in Emails : IsFiniteSet(mailed[e])
        /\ invitePassword \in [Emails -> Int]
    BY FS_EmptySet DEF T!Init
  <2> QED
    BY <2>1, <2>2, <2>3, <2>4 DEF T!Init, TenantShape
<1>2. T!Admin(Founder) /\ Founder \in Emails
  <2>1. Founder \in Emails /\ user[Founder] = [active |-> TRUE, admin |-> TRUE]
    BY DEF T!Init, T!Allotted
  <2>2. [active |-> TRUE, admin |-> TRUE] \in T!Account
    BY DEF T!Account
  <2>3. user[Founder] # Null
    BY <2>1, <2>2 DEF T!Allotted
  <2> QED
    BY <2>1, <2>3 DEF T!Admin
<1>3. T!ActiveMethods # {}
  <2>1. method \in {m \in [Methods -> {"absent", "active"}] :
                     T!Cardinality({x \in Methods : m[x] = "active"}) = 1}
    BY DEF T!Init
  <2>2. Cardinality(T!ActiveMethods) = 1
    BY <2>1, TenantSets DEF T!ActiveMethods
  <2> QED
    BY <2>2, FS_EmptySet
<1>4. \A r \in Clerks : tenantReq[r].kind = "idle"
  BY DEF T!Init, T!Idle
<1> QED
  BY <1>1, <1>2, <1>3, <1>4
     DEF T!Init, TenantInductive, TenantAsIs, T!InvitedAreNew, T!InvitedCanEnter,
     T!AnAdminRemains, T!AMethodRemains, TenantCounts, TenantResends, TenantRemains

\* Accounts and invitations are finitely many.
LEMMA TenantFinite ==
  ASSUME T!Allotted, invited \subseteq Emails
  PROVE  /\ IsFiniteSet(T!Users) /\ IsFiniteSet(invited)
         /\ Cardinality(T!Users) \in Nat /\ Cardinality(invited) \in Nat
<1>1. T!Users \in SUBSET Emails /\ invited \in SUBSET Emails
  BY DEF T!Users
<1>2. IsFiniteSet(Emails)
  BY TenantSets DEF T!Allotted
<1>3. IsFiniteSet(T!Users) /\ IsFiniteSet(invited)
  BY <1>1, <1>2, FS_Subset
<1> QED
  BY <1>3, FS_CardinalityType

\* A request begins while nobody does what nobody else may, and does that only alone.
LEMMA TenantMayStart ==
  ASSUME T!Allotted, TenantInductive, NEW r \in Clerks, NEW kind \in {"create", "resend", "manage", "off"},
         T!MayStart(r, kind)
  PROVE  /\ tenantReq[r] = T!Idle
         /\ \A p \in Clerks \ {r} : tenantReq[p].kind \notin {"manage", "off"}
         /\ kind \in {"manage", "off"} => TenantNobodyElse(r)
<1>1. /\ tenantReq[r] = T!Idle /\ T!Flying(r) \cap TenantAlone = {}
      /\ kind \in {"manage", "off"} => T!Flying(r) = {}
  BY DEF T!MayStart, T!Allotted
<1>2. \A p \in Clerks \ {r} : tenantReq[p].kind \in {"manage", "off"} => tenantReq[p].kind \in T!Flying(r)
  BY DEF T!Flying
<1>3. \A p \in Clerks : tenantReq[p].kind = "idle" => tenantReq[p] = T!Idle
  BY DEF TenantInductive, TenantShape, TenantRows, T!Idle
<1>4. kind \in {"manage", "off"} => \A p \in Clerks \ {r} : tenantReq[p].kind = "idle"
  BY <1>1 DEF T!Flying
<1> QED
  BY <1>1, <1>2, <1>3, <1>4 DEF T!Allotted, TenantNobodyElse

\* Once a request is in flight, nobody is alone but it.
LEMMA TenantOthers ==
  ASSUME TenantInductive, NEW r \in Clerks, tenantReq[r].kind # "idle"
  PROVE  \A p \in Clerks \ {r} : tenantReq[p].kind \notin {"manage", "off"}
BY DEF TenantInductive, TenantRemains, TenantNobodyElse, T!Idle

\* Steps that only read: the rows stay, and what the others have stays theirs.
TenantRowsStay == UNCHANGED <<user, invited, invitePassword, mailed, tables, method, limit>>

LEMMA TenantReads ==
  ASSUME T!Allotted, TenantInductive, TenantRowsStay, TenantShape', NEW r \in Clerks,
         \A p \in Clerks \ {r} :
           /\ tenantReq'[p] = tenantReq[p] /\ tenantReq[p].kind \notin {"manage", "off"}
           /\ tenantHolder = p => tenantHolder' = p
           /\ \A e \in Emails : letter[e] = p => letter'[e] = p,
         TenantCounts(r)', TenantResends(r)', TenantRemains(r)'
  PROVE  TenantInductive'
<1>1. TenantAsIs'
  BY DEF TenantRowsStay, TenantInductive, TenantAsIs, T!InvitedAreNew, T!InvitedCanEnter,
     T!AnAdminRemains,
     T!AMethodRemains, T!Users, T!Admin, T!ActiveMethods, T!Opens
<1>2. ASSUME NEW p \in Clerks \ {r} PROVE TenantCounts(p)' /\ TenantResends(p)' /\ TenantRemains(p)'
  <2>1. TenantCounts(p) /\ TenantResends(p) /\ invited \subseteq Emails
    BY DEF TenantInductive, TenantShape
  <2>2. T!Users' = T!Users
    BY DEF TenantRowsStay, T!Users
  <2>3. TenantCounts(p)'
    BY <1>2, <2>1, <2>2 DEF TenantCounts, TenantRowsStay, T!Within, T!Pending
  <2>4. TenantResends(p)'
    BY <1>2, <2>1 DEF TenantResends, TenantRowsStay
  <2> QED
    BY <1>2, <2>3, <2>4 DEF TenantRemains
<1> QED
  BY <1>1, <1>2 DEF TenantInductive

\* Enforce, Count, Allow, Resend, Manage and SwitchOff only read.
LEMMA TenantEnforceKeeps ==
  ASSUME T!Allotted, TenantInductive, NEW r \in Clerks, NEW what \in T!Resources,
         NEW x \in Emails \cup Methods \cup {Null}, T!Enforce(r, what, x),
         what = "usuarios" => x \in Emails, what = "metodos_pago_activos" => x \in Methods
  PROVE  TenantInductive'
<1> DEFINE q == [kind |-> "create", stage |-> "locked", what |-> what, of |-> x]
<1>1. /\ tenantHolder = Null /\ tenantHolder' = r /\ tenantReq' = [tenantReq EXCEPT ![r] = q]
      /\ TenantRowsStay /\ UNCHANGED letter
  BY DEF T!Enforce, T!Wait, TenantRowsStay, T!letters
<1>2. \A p \in Clerks \ {r} : tenantReq[p].kind \notin {"manage", "off"}
  BY TenantMayStart DEF T!Enforce
<1>3. /\ tenantReq'[r] = q /\ \A p \in Clerks \ {r} : tenantReq'[p] = tenantReq[p] /\ tenantHolder # p
      /\ q \in TenantRows
  BY <1>1 DEF TenantInductive, TenantShape, TenantRows, T!Allotted
<1>4. TenantShape'
  BY <1>1, <1>3 DEF TenantInductive, TenantShape, TenantRowsStay
<1>5. TenantCounts(r)' /\ TenantResends(r)' /\ TenantRemains(r)'
  BY <1>1, <1>3 DEF TenantCounts, TenantResends, TenantRemains
<1> QED
  BY <1>1, <1>2, <1>3, <1>4, <1>5, TenantReads

LEMMA TenantCountKeeps ==
  ASSUME T!Allotted, TenantInductive, NEW r \in Clerks, T!Count(r)
  PROVE  TenantInductive'
<1> DEFINE n == T!CountOf(tenantReq[r].what)
           q == [kind |-> "create", stage |-> "counted", what |-> tenantReq[r].what,
                 of |-> tenantReq[r].of, n |-> n]
<1>1. /\ tenantReq[r].kind = "create" /\ tenantReq[r].stage = "locked"
      /\ tenantReq' = [tenantReq EXCEPT ![r] = q]
      /\ TenantRowsStay /\ UNCHANGED <<letter, tenantHolder>>
  BY DEF T!Count, TenantRowsStay, T!letters
<1>2. tenantReq[r].what \in T!Resources /\ tenantReq[r].of \in Emails \cup Methods \cup {Null}
  BY <1>1 DEF TenantInductive, TenantShape, TenantRows, T!Idle
<1>3. n \in Int
  <2>1. T!Cardinality(T!Users) \in Nat
    BY TenantFinite, TenantSets DEF TenantInductive, TenantShape
  <2>2. T!Cardinality(T!ActiveMethods) \in Nat
    <3>1. T!ActiveMethods \in SUBSET Methods /\ IsFiniteSet(Methods)
      BY TenantSets DEF T!ActiveMethods, T!Allotted
    <3> QED
      BY <3>1, FS_Subset, FS_CardinalityType, TenantSets
  <2> QED
    BY <2>1, <2>2 DEF T!CountOf, TenantInductive, TenantShape
<1>4. q.what = "usuarios" => n = Cardinality(T!Users)
  BY TenantSets DEF T!CountOf
<1>5. q.what = "mesas" => n = tables
  BY DEF T!CountOf
<1> HIDE DEF n
<1>6. q \in TenantRows
  BY <1>2, <1>3 DEF TenantRows
<1>7. tenantReq'[r] = q /\ \A p \in Clerks \ {r} : tenantReq'[p] = tenantReq[p]
  BY <1>1 DEF TenantInductive, TenantShape
<1>8. TenantShape'
  BY <1>1, <1>6, <1>7 DEF TenantInductive, TenantShape, TenantRowsStay
<1>9. T!Users' = T!Users
  BY <1>1 DEF TenantRowsStay, T!Users
<1>10. TenantCounts(r)' /\ TenantResends(r)' /\ TenantRemains(r)'
  <2>1. tenantHolder = r
    BY <1>1 DEF TenantInductive, TenantCounts
  <2>2. TenantCounts(r)'
    BY <1>1, <1>4, <1>5, <1>7, <1>9, <2>1 DEF TenantCounts, TenantRowsStay
  <2> QED
    BY <1>7, <2>2 DEF TenantResends, TenantRemains
<1> QED
  BY <1>1, <1>7, <1>8, <1>10, TenantReads, TenantOthers

LEMMA TenantAllowKeeps ==
  ASSUME T!Allotted, TenantInductive, NEW r \in Clerks, T!Allow(r)
  PROVE  TenantInductive'
<1>1. /\ tenantReq[r].kind = "create" /\ tenantReq[r].stage = "counted"
      /\ tenantReq' = [tenantReq EXCEPT ![r].stage = "allowed"]
      /\ T!Within(tenantReq[r].what, tenantReq[r].n + T!Pending(tenantReq[r].what))
      /\ ~T!Taken(tenantReq[r].what, tenantReq[r].of)
      /\ TenantRowsStay /\ UNCHANGED <<letter, tenantHolder>>
  BY DEF T!Allow, TenantRowsStay, T!letters
<1>2. PICK q \in [kind : {"create"}, stage : {"counted"}, what : T!Resources,
                  of : Emails \cup Methods \cup {Null}, n : Int] : q = tenantReq[r]
  BY <1>1 DEF TenantInductive, TenantShape, TenantRows, T!Idle
<1>3. PICK new \in TenantRows : /\ new = [q EXCEPT !.stage = "allowed"]
                                /\ new.kind = "create" /\ new.stage = "allowed"
                                /\ new.what = q.what /\ new.of = q.of /\ new.n = q.n
  <2> DEFINE k == [kind |-> "create", stage |-> "allowed", what |-> q.what, of |-> q.of, n |-> q.n]
  <2>1. k \in TenantRows
    BY DEF TenantRows
  <2>2. k = [q EXCEPT !.stage = "allowed"]
    OBVIOUS
  <2> QED
    BY <2>1, <2>2
<1>4. tenantReq'[r] = new /\ \A p \in Clerks \ {r} : tenantReq'[p] = tenantReq[p]
  BY <1>1, <1>2, <1>3 DEF TenantInductive, TenantShape
<1>5. TenantShape'
  BY <1>1, <1>2, <1>3, <1>4 DEF TenantInductive, TenantShape, TenantRowsStay
<1>6. T!Users' = T!Users /\ (q.what = "usuarios" => q.of \notin T!Users)
  BY <1>1, <1>2 DEF TenantRowsStay, T!Users, T!Taken
<1>7. TenantCounts(r)' /\ TenantResends(r)' /\ TenantRemains(r)'
  <2>1. TenantCounts(r)
    BY DEF TenantInductive
  <2>2. T!Within(new.what, new.n + T!Pending(new.what))'
    BY <1>1, <1>2, <1>3 DEF T!Within, T!Pending, TenantRowsStay
  <2>3. T!Within(new.what, new.n + T!Pending(new.what))' <=>
        T!Within(tenantReq[r].what, tenantReq[r].n + T!Pending(tenantReq[r].what))'
    BY <1>4
  <2>4. TenantCounts(r)'
    BY <1>1, <1>2, <1>3, <1>4, <1>6, <2>1, <2>2, <2>3 DEF TenantCounts, TenantRowsStay
  <2> QED
    BY <1>3, <1>4, <2>4 DEF TenantResends, TenantRemains
<1> QED
  BY <1>1, <1>4, <1>5, <1>7, TenantReads, TenantOthers

LEMMA TenantResendKeeps ==
  ASSUME T!Allotted, TenantInductive, NEW r \in Clerks, NEW e \in Emails, T!Resend(r, e)
  PROVE  TenantInductive'
<1> DEFINE n == 1 + T!Cardinality(mailed[e])
           q == [kind |-> "resend", of |-> e, stage |-> 1, n |-> n]
<1>1. /\ tenantReq' = [tenantReq EXCEPT ![r] = q] /\ letter' = [letter EXCEPT ![e] = r]
      /\ e \in invited /\ letter[e] = Null
      /\ TenantRowsStay /\ UNCHANGED tenantHolder
  BY DEF T!Resend, T!Unlocked, TenantRowsStay
<1>2. n \in Int
  BY TenantSets, FS_CardinalityType DEF TenantInductive, TenantShape
<1> HIDE DEF n
<1>3. q \in TenantRows
  BY <1>2 DEF TenantRows
<1>4. tenantReq'[r] = q /\ \A p \in Clerks \ {r} : tenantReq'[p] = tenantReq[p]
  BY <1>1 DEF TenantInductive, TenantShape
<1>5. /\ letter'[e] = r
      /\ \A p \in Clerks, k \in Emails : letter[k] = p => letter'[k] = p
  BY <1>1 DEF TenantInductive, TenantShape, T!Allotted
<1>6. TenantShape'
  BY <1>1, <1>3, <1>4 DEF TenantInductive, TenantShape, TenantRowsStay
<1>7. TenantCounts(r)' /\ TenantResends(r)' /\ TenantRemains(r)'
  BY <1>1, <1>4, <1>5 DEF TenantCounts, TenantResends, TenantRemains, TenantRowsStay
<1>8. \A p \in Clerks \ {r} : tenantReq[p].kind \notin {"manage", "off"}
  BY TenantMayStart DEF T!Resend
<1> QED
  BY <1>1, <1>4, <1>5, <1>6, <1>7, <1>8, TenantReads

LEMMA TenantManageKeeps ==
  ASSUME T!Allotted, TenantInductive, NEW r \in Clerks, NEW by \in Emails, NEW e \in Emails,
         NEW field \in {"active", "admin"}, NEW to \in BOOLEAN, T!Manage(r, by, e, field, to)
  PROVE  TenantInductive'
<1> DEFINE q == [kind |-> "manage", of |-> e, field |-> field, to |-> to]
<1>1. /\ tenantReq' = [tenantReq EXCEPT ![r] = q] /\ T!Admin(by) /\ e \in T!Users
      /\ by # e \/ (field = "active" /\ to)
      /\ TenantRowsStay /\ UNCHANGED <<letter, tenantHolder>>
  BY DEF T!Manage, T!Others, TenantRowsStay, T!letters
<1>2. q \in TenantRows
  BY DEF TenantRows
<1>3. tenantReq'[r] = q /\ \A p \in Clerks \ {r} : tenantReq'[p] = tenantReq[p]
  BY <1>1 DEF TenantInductive, TenantShape
<1>4. /\ \A p \in Clerks \ {r} : tenantReq[p].kind \notin {"manage", "off"}
      /\ TenantNobodyElse(r)
  BY TenantMayStart DEF T!Manage
<1>5. TenantShape'
  BY <1>1, <1>2, <1>3 DEF TenantInductive, TenantShape, TenantRowsStay
<1>6. TenantRemains(r)'
  <2>1. \A b \in Emails : T!Admin(b)' <=> T!Admin(b)
    BY <1>1 DEF T!Admin, TenantRowsStay
  <2>2. (e \in T!Users)' /\ TenantNobodyElse(r)'
    BY <1>1, <1>3, <1>4 DEF T!Users, TenantRowsStay, TenantNobodyElse
  <2> QED
    BY <1>1, <1>3, <2>1, <2>2 DEF TenantRemains
<1> QED
  BY <1>1, <1>3, <1>4, <1>5, <1>6, TenantReads DEF TenantCounts, TenantResends

LEMMA TenantSwitchOffKeeps ==
  ASSUME T!Allotted, TenantInductive, NEW r \in Clerks, NEW m \in Methods, T!SwitchOff(r, m)
  PROVE  TenantInductive'
<1> DEFINE q == [kind |-> "off", of |-> m]
<1>1. /\ tenantReq' = [tenantReq EXCEPT ![r] = q] /\ T!ActiveMethods \ {m} # {}
      /\ TenantRowsStay /\ UNCHANGED <<letter, tenantHolder>>
  BY DEF T!SwitchOff, T!Spare, TenantRowsStay, T!letters
<1>2. q \in TenantRows
  BY DEF TenantRows
<1>3. tenantReq'[r] = q /\ \A p \in Clerks \ {r} : tenantReq'[p] = tenantReq[p]
  BY <1>1 DEF TenantInductive, TenantShape
<1>4. /\ \A p \in Clerks \ {r} : tenantReq[p].kind \notin {"manage", "off"}
      /\ TenantNobodyElse(r)
  BY TenantMayStart DEF T!SwitchOff
<1>5. TenantShape'
  BY <1>1, <1>2, <1>3 DEF TenantInductive, TenantShape, TenantRowsStay
<1>6. TenantRemains(r)'
  <2>1. \E n \in Methods \ {m} : method'[n] = "active"
    BY <1>1 DEF T!ActiveMethods, TenantRowsStay
  <2>2. TenantNobodyElse(r)'
    BY <1>3, <1>4 DEF TenantNobodyElse
  <2> QED
    BY <1>3, <2>1, <2>2 DEF TenantRemains
<1> QED
  BY <1>1, <1>3, <1>4, <1>5, <1>6, TenantReads DEF TenantCounts, TenantResends

\* Steps that write: what the others have stays theirs, and what they have counted stays true.
LEMMA TenantWrites ==
  ASSUME T!Allotted, TenantInductive, TenantShape', TenantAsIs', NEW r \in Clerks,
         TenantCounts(r)', TenantResends(r)', TenantRemains(r)',
         \A p \in Clerks \ {r} :
           /\ tenantReq'[p] = tenantReq[p] /\ tenantReq[p].kind \notin {"manage", "off"}
           /\ tenantHolder = p => tenantHolder' = p
           /\ \A e \in Emails : letter[e] = p => letter'[e] = p,
         \A e \in invited : e \in invited' /\ mailed[e] \subseteq mailed'[e],
         \/ UNCHANGED <<user, tables, limit, invited>>
         \/ \A p \in Clerks \ {r} : tenantReq[p].kind # "create"
  PROVE  TenantInductive'
<1> SUFFICES ASSUME NEW p \in Clerks \ {r}
             PROVE  TenantCounts(p)' /\ TenantResends(p)' /\ TenantRemains(p)'
  BY DEF TenantInductive
<1>1. TenantCounts(p) /\ TenantResends(p) /\ invited \subseteq Emails
  BY DEF TenantInductive, TenantShape
<1>2. TenantCounts(p)'
  <2>1. CASE tenantReq[p].kind # "create"
    BY <2>1 DEF TenantCounts
  <2>2. CASE UNCHANGED <<user, tables, limit, invited>>
    <3>1. T!Users' = T!Users
      BY <2>2 DEF T!Users
    <3> QED
      BY <1>1, <2>2, <3>1 DEF TenantCounts, T!Within, T!Pending
  <2> QED
    BY <2>1, <2>2
<1>3. TenantResends(p)'
  BY <1>1 DEF TenantResends
<1> QED
  BY <1>2, <1>3 DEF TenantRemains

\* A request that ends gives back its own locks.
LEMMA TenantEnds ==
  ASSUME TenantInductive, NEW r \in Clerks, T!Ends(r)
  PROVE  /\ tenantReq' \in [Clerks -> TenantRows] /\ tenantReq'[r] = T!Idle
         /\ tenantHolder' \in Clerks \cup {Null} /\ letter' \in [Emails -> Clerks \cup {Null}]
         /\ \A p \in Clerks \ {r} :
              /\ tenantReq'[p] = tenantReq[p]
              /\ tenantHolder = p => tenantHolder' = p
              /\ \A e \in Emails : letter[e] = p => letter'[e] = p
         /\ TenantCounts(r)' /\ TenantResends(r)' /\ TenantRemains(r)'
         /\ UNCHANGED <<user, limit, expired>>
<1>1. /\ tenantReq' = [tenantReq EXCEPT ![r] = T!Idle]
      /\ tenantHolder' = IF tenantHolder = r THEN Null ELSE tenantHolder
      /\ letter' = [e \in Emails |-> IF letter[e] = r THEN Null ELSE letter[e]]
      /\ UNCHANGED <<user, limit, expired>>
  BY DEF T!Ends, T!Release
<1>2. T!Idle \in TenantRows /\ T!Idle.kind = "idle"
  BY DEF TenantRows, T!Idle
<1>3. tenantReq'[r] = T!Idle
  BY <1>1 DEF TenantInductive, TenantShape
<1>4. TenantCounts(r)' /\ TenantResends(r)' /\ TenantRemains(r)'
  BY <1>2, <1>3 DEF TenantCounts, TenantResends, TenantRemains
<1> QED
  BY <1>1, <1>2, <1>3, <1>4 DEF TenantInductive, TenantShape

\* Steps that leave accounts, invitations and methods alone.
LEMMA TenantSame ==
  ASSUME TenantInductive, UNCHANGED <<user, invited, invitePassword, mailed, method>>
  PROVE  TenantAsIs'
BY DEF TenantInductive, TenantAsIs, T!InvitedAreNew, T!InvitedCanEnter, T!AnAdminRemains,
   T!AMethodRemains, T!Users, T!Admin, T!ActiveMethods, T!Opens

LEMMA TenantFailKeeps ==
  ASSUME T!Allotted, TenantInductive, NEW r \in Clerks, T!Fail(r)
  PROVE  TenantInductive'
<1>1. T!Ends(r) /\ UNCHANGED <<invited, invitePassword, mailed, tables, method>>
  BY DEF T!Fail
<1>2. UNCHANGED <<user, limit>>
  BY <1>1 DEF T!Ends
<1>3. TenantShape'
  <2>1. \A p \in Clerks : tenantReq'[p].kind = "create" => tenantReq'[p] = tenantReq[p]
    BY <1>1, TenantEnds DEF T!Idle
  <2> QED
    BY <1>1, <1>2, <2>1, TenantEnds DEF TenantInductive, TenantShape
<1>4. tenantReq[r].kind # "idle"
  BY DEF T!Fail, TenantInductive, TenantShape, TenantRows, T!Idle
<1> QED
  BY <1>1, <1>2, <1>3, <1>4, TenantEnds, TenantSame, TenantOthers, TenantWrites

\* What an invitation was allowed is still so when it is inserted.
LEMMA TenantInviteKeeps ==
  ASSUME T!Allotted, TenantInductive, NEW r \in Clerks, T!Invite(r)
  PROVE  TenantInductive' /\ T!Within("usuarios", T!Seats) /\ tables' = tables
<1>1. PICK x \in Emails : x = tenantReq[r].of /\ x \notin T!Users /\ x \notin invited
  BY DEF T!Invite, T!Allowed, TenantInductive, TenantShape, TenantCounts
<1>2. /\ tenantReq[r].kind = "create" /\ tenantReq[r].stage = "allowed"
      /\ tenantReq[r].what = "usuarios" /\ T!Ends(r)
      /\ invited' = invited \cup {x} /\ UNCHANGED <<tables, method>>
      /\ invitePassword' = [invitePassword EXCEPT ![x] = 1] /\ mailed' = [mailed EXCEPT ![x] = {1}]
  BY <1>1 DEF T!Invite, T!Allowed
<1>3. tenantHolder = r /\ T!Within("usuarios", T!Seats)
  <2>1. TenantCounts(r)
    BY DEF TenantInductive
  <2> QED
    BY <1>2, <2>1, TenantSets DEF TenantCounts, T!Pending, T!Seats
<1>4. UNCHANGED <<user, limit>>
  BY <1>2 DEF T!Ends
<1>5. TenantShape'
  <2>1. IsFiniteSet({1})
    BY FS_Singleton
  <2>2. /\ mailed' \in [Emails -> SUBSET Int] /\ \A e \in Emails : IsFiniteSet(mailed'[e])
        /\ invitePassword' \in [Emails -> Int] /\ invited' \subseteq Emails
    BY <1>2, <2>1 DEF TenantInductive, TenantShape
  <2>3. \A p \in Clerks : tenantReq'[p].kind = "create" => tenantReq'[p] = tenantReq[p]
    BY <1>2, TenantEnds DEF T!Idle
  <2> QED
    BY <1>2, <1>4, <2>2, <2>3, TenantEnds DEF TenantInductive, TenantShape
<1>6. TenantAsIs'
  <2>1. T!InvitedAreNew'
    BY <1>1, <1>2, <1>4 DEF TenantInductive, TenantAsIs, T!InvitedAreNew, T!Users
  <2>2. T!InvitedCanEnter'
    BY <1>1, <1>2 DEF TenantInductive, TenantShape, TenantAsIs, T!InvitedCanEnter, T!Opens
  <2>3. T!AnAdminRemains' /\ T!AMethodRemains'
    BY <1>2, <1>4 DEF TenantInductive, TenantAsIs, T!AnAdminRemains, T!Admin, T!AMethodRemains,
       T!ActiveMethods
  <2> QED
    BY <2>1, <2>2, <2>3 DEF TenantAsIs
<1>7. \A e \in invited : e \in invited' /\ mailed[e] \subseteq mailed'[e]
  BY <1>1, <1>2 DEF TenantInductive, TenantShape
<1>8. \A p \in Clerks \ {r} : tenantReq[p].kind # "create" /\ tenantReq[p].kind \notin {"manage", "off"}
  BY <1>2, <1>3, TenantOthers DEF TenantInductive, TenantCounts
<1> QED
  BY <1>2, <1>3, <1>5, <1>6, <1>7, <1>8, TenantEnds, TenantWrites

LEMMA TenantAddTableKeeps ==
  ASSUME T!Allotted, TenantInductive, NEW r \in Clerks, T!AddTable(r)
  PROVE  TenantInductive' /\ T!Within("mesas", tables) /\ UNCHANGED <<user, invited>>
<1>1. /\ tenantReq[r].kind = "create" /\ tenantReq[r].stage = "allowed"
      /\ tenantReq[r].what = "mesas" /\ T!Ends(r) /\ tables' = tables + 1
      /\ UNCHANGED <<invited, invitePassword, mailed, method>>
  BY DEF T!AddTable, T!Allowed
<1>2. tenantHolder = r /\ T!Within("mesas", tables)
  <2>1. TenantCounts(r) /\ tables \in Nat
    BY DEF TenantInductive, TenantShape
  <2> QED
    BY <1>1, <2>1 DEF TenantCounts, T!Pending
<1>3. UNCHANGED <<user, limit>>
  BY <1>1 DEF T!Ends
<1>4. TenantShape'
  <2>1. \A p \in Clerks : tenantReq'[p].kind = "create" => tenantReq'[p] = tenantReq[p]
    BY <1>1, TenantEnds DEF T!Idle
  <2> QED
    BY <1>1, <1>3, <2>1, TenantEnds DEF TenantInductive, TenantShape
<1>5. \A p \in Clerks \ {r} : tenantReq[p].kind # "create" /\ tenantReq[p].kind \notin {"manage", "off"}
  BY <1>1, <1>2, TenantOthers DEF TenantInductive, TenantCounts
<1> QED
  BY <1>1, <1>2, <1>3, <1>4, <1>5, TenantEnds, TenantSame, TenantWrites

LEMMA TenantAddMethodKeeps ==
  ASSUME T!Allotted, TenantInductive, NEW r \in Clerks, T!AddMethod(r)
  PROVE  TenantInductive' /\ UNCHANGED <<user, invited, tables>>
<1>1. PICK x \in Methods : x = tenantReq[r].of
  BY DEF T!AddMethod, T!Allowed, TenantInductive, TenantShape
<1>2. /\ tenantReq[r].kind = "create" /\ T!Ends(r) /\ method' = [method EXCEPT ![x] = "active"]
      /\ UNCHANGED <<invited, invitePassword, mailed, tables>>
  BY <1>1 DEF T!AddMethod, T!Allowed
<1>3. tenantHolder = r
  BY <1>2 DEF TenantInductive, TenantCounts
<1>4. UNCHANGED <<user, limit>>
  BY <1>2 DEF T!Ends
<1>5. TenantShape'
  <2>1. \A p \in Clerks : tenantReq'[p].kind = "create" => tenantReq'[p] = tenantReq[p]
    BY <1>2, TenantEnds DEF T!Idle
  <2>2. DOMAIN method' = Methods
    BY <1>2 DEF TenantInductive, TenantShape
  <2> QED
    BY <1>2, <1>4, <2>1, <2>2, TenantEnds DEF TenantInductive, TenantShape
<1>6. method'[x] = "active"
  BY <1>2 DEF TenantInductive, TenantShape
<1>7. TenantAsIs'
  <2>1. T!AMethodRemains'
    BY <1>6 DEF T!AMethodRemains, T!ActiveMethods
  <2> QED
    BY <1>2, <1>4, <2>1 DEF TenantInductive, TenantAsIs, T!InvitedAreNew, T!InvitedCanEnter,
       T!AnAdminRemains, T!Users, T!Admin, T!Opens
<1>8. \A p \in Clerks \ {r} : tenantReq[p].kind # "create" /\ tenantReq[p].kind \notin {"manage", "off"}
  BY <1>2, <1>3, TenantOthers DEF TenantInductive, TenantCounts
<1> QED
  BY <1>2, <1>4, <1>5, <1>7, <1>8, TenantEnds, TenantWrites

\* The new password is saved only once it was mailed.
LEMMA TenantResendsKeeps ==
  ASSUME T!Allotted, TenantInductive, NEW r \in Clerks, T!Resends(r)
  PROVE  TenantInductive' /\ UNCHANGED <<user, invited, tables>>
<1>1. /\ tenantReq[r].kind = "resend" /\ UNCHANGED <<invited, tables, method>>
      /\ tenantReq[r] \in [kind : {"resend"}, of : Emails, stage : {1, 2}, n : Int]
  BY DEF T!Resends, TenantInductive, TenantShape, TenantRows, T!Idle
<1>2. PICK e \in Emails, n \in Int : e = tenantReq[r].of /\ n = tenantReq[r].n
  BY <1>1
<1>3. /\ e \in invited /\ letter[e] = r /\ (tenantReq[r].stage = 2 => n \in mailed[e])
      /\ T!Opens(e)
  BY <1>1, <1>2 DEF TenantInductive, TenantResends, TenantAsIs, T!InvitedCanEnter
<1>4. CASE tenantReq[r].stage = 1
  <2>1. /\ mailed' = [mailed EXCEPT ![e] = @ \cup {n}] /\ UNCHANGED invitePassword
        /\ tenantReq' = [tenantReq EXCEPT ![r].stage = 2]
        /\ UNCHANGED <<user, letter, limit, expired, tenantHolder>>
    BY <1>2, <1>4 DEF T!Resends, T!Halves
  <2> DEFINE new == [kind |-> "resend", of |-> e, stage |-> 2, n |-> n]
  <2>2. tenantReq'[r] = new /\ \A p \in Clerks \ {r} : tenantReq'[p] = tenantReq[p]
    BY <1>1, <1>2, <2>1 DEF TenantInductive, TenantShape
  <2>3. new \in TenantRows
    BY DEF TenantRows
  <2>4. /\ mailed' \in [Emails -> SUBSET Int] /\ \A k \in Emails : IsFiniteSet(mailed'[k])
        /\ mailed'[e] = mailed[e] \cup {n} /\ \A k \in Emails : mailed[k] \subseteq mailed'[k]
    <3>1. /\ \A k \in Emails \ {e} : mailed'[k] = mailed[k]
          /\ mailed'[e] = mailed[e] \cup {n} /\ mailed' \in [Emails -> SUBSET Int]
      BY <2>1 DEF TenantInductive, TenantShape
    <3>2. \A k \in Emails : IsFiniteSet(mailed[k])
      BY DEF TenantInductive, TenantShape
    <3>3. IsFiniteSet(mailed[e] \cup {n})
      BY <3>2, FS_AddElement
    <3> QED
      BY <3>1, <3>2, <3>3
  <2>5. TenantShape'
    <3>1. tenantReq' \in [Clerks -> TenantRows]
      BY <2>1, <2>2, <2>3 DEF TenantInductive, TenantShape
    <3> QED
      BY <1>1, <2>1, <2>2, <2>4, <3>1 DEF TenantInductive, TenantShape
  <2>6. TenantAsIs'
    <3>1. \A k \in invited : T!Opens(k) => T!Opens(k)'
      BY <2>1, <2>4 DEF T!Opens, TenantInductive, TenantShape
    <3> QED
      BY <1>1, <2>1, <3>1 DEF TenantInductive, TenantAsIs, T!InvitedAreNew, T!InvitedCanEnter,
         T!AnAdminRemains, T!AMethodRemains, T!Users, T!Admin, T!ActiveMethods
  <2>7. TenantCounts(r)' /\ TenantResends(r)' /\ TenantRemains(r)'
    BY <1>1, <1>3, <2>1, <2>2, <2>4 DEF TenantCounts, TenantResends, TenantRemains
  <2>8. \A k \in invited : k \in invited' /\ mailed[k] \subseteq mailed'[k]
    BY <1>1, <2>4 DEF TenantInductive, TenantShape
  <2> QED
    BY <1>1, <2>1, <2>2, <2>5, <2>6, <2>7, <2>8, TenantOthers, TenantWrites
<1>5. CASE tenantReq[r].stage = 2
  <2>1. /\ invitePassword' = [invitePassword EXCEPT ![e] = n] /\ UNCHANGED mailed /\ T!Ends(r)
    BY <1>2, <1>5 DEF T!Resends, T!Halves
  <2>2. UNCHANGED <<user, limit>>
    BY <2>1 DEF T!Ends
  <2>3. TenantShape'
    <3>1. invitePassword' \in [Emails -> Int]
      BY <2>1 DEF TenantInductive, TenantShape
    <3>2. \A p \in Clerks : tenantReq'[p].kind = "create" => tenantReq'[p] = tenantReq[p]
      BY <2>1, TenantEnds DEF T!Idle
    <3> QED
      BY <1>1, <2>1, <2>2, <3>1, <3>2, TenantEnds DEF TenantInductive, TenantShape
  <2>4. TenantAsIs'
    <3>1. \A k \in invited : T!Opens(k) => T!Opens(k)'
      BY <1>3, <1>5, <2>1 DEF T!Opens, TenantInductive, TenantShape
    <3> QED
      BY <1>1, <2>2, <3>1 DEF TenantInductive, TenantAsIs, T!InvitedAreNew, T!InvitedCanEnter,
         T!AnAdminRemains, T!AMethodRemains, T!Users, T!Admin, T!ActiveMethods
  <2> QED
    BY <1>1, <2>1, <2>2, <2>3, <2>4, TenantEnds, TenantOthers, TenantWrites
<1> QED
  BY <1>1, <1>4, <1>5

\* Of two administrators one may switch off or demote the other: alone, so he is still one.
LEMMA TenantCommitManageKeeps ==
  ASSUME T!Allotted, TenantInductive, NEW r \in Clerks, T!CommitManage(r)
  PROVE  TenantInductive' /\ T!Users' = T!Users /\ UNCHANGED <<invited, tables>>
<1>1. PICK e \in Emails, field \in {"active", "admin"}, to \in BOOLEAN :
        tenantReq[r] = [kind |-> "manage", of |-> e, field |-> field, to |-> to]
  BY DEF T!CommitManage, TenantInductive, TenantShape, TenantRows, T!Idle
<1>2. /\ user' = [user EXCEPT ![e] = [@ EXCEPT ![field] = to]]
      /\ tenantReq' = [tenantReq EXCEPT ![r] = T!Idle]
      /\ UNCHANGED <<invited, invitePassword, mailed, letter, tables, method, limit, expired, tenantHolder>>
  BY <1>1 DEF T!CommitManage, T!letters
<1>3. /\ TenantNobodyElse(r) /\ e \in T!Users
      /\ \/ field = "active" /\ to
         \/ \E b \in Emails \ {e} : T!Admin(b)
  BY <1>1 DEF TenantInductive, TenantRemains
<1>4. user[e] \in T!Account
  BY <1>3 DEF T!Users, TenantInductive, TenantShape
<1>5. /\ user'[e] \in T!Account /\ (field = "active" => user'[e].admin = user[e].admin)
      /\ (field = "active" => user'[e].active = to)
      /\ \A b \in Emails \ {e} : user'[b] = user[b]
      /\ user' \in [Emails -> T!Account \cup {Null}]
  <2>1. user'[e] = [user[e] EXCEPT ![field] = to] /\ \A b \in Emails \ {e} : user'[b] = user[b]
    BY <1>2 DEF TenantInductive, TenantShape
  <2>2. CASE field = "active"
    <3>1. user'[e] = [active |-> to, admin |-> user[e].admin]
      BY <1>4, <2>1, <2>2 DEF T!Account
    <3> QED
      BY <1>2, <1>4, <2>1, <3>1 DEF T!Account, TenantInductive, TenantShape
  <2>3. CASE field = "admin"
    <3>1. user'[e] = [active |-> user[e].active, admin |-> to]
      BY <1>4, <2>1, <2>3 DEF T!Account
    <3> QED
      BY <1>2, <1>4, <2>1, <2>3, <3>1 DEF T!Account, TenantInductive, TenantShape
  <2> QED
    BY <2>2, <2>3
<1>6. /\ user'[e] # Null /\ user[e] # Null /\ T!Users' = T!Users
  <2>1. user'[e] # Null /\ user[e] # Null
    BY <1>4, <1>5 DEF T!Allotted
  <2>2. \A b \in Emails : user'[b] # Null <=> user[b] # Null
    BY <1>5, <2>1
  <2> QED
    BY <2>1, <2>2 DEF T!Users
<1>7. \A b \in Emails \ {e} : T!Admin(b) => T!Admin(b)'
  BY <1>5 DEF T!Admin
<1>8. T!AnAdminRemains'
  <2>1. CASE \E b \in Emails \ {e} : T!Admin(b)
    BY <1>7, <2>1 DEF T!AnAdminRemains
  <2>2. CASE field = "active" /\ to
    <3>1. T!Admin(e) => T!Admin(e)'
      BY <1>5, <1>6, <2>2 DEF T!Admin
    <3> QED
      BY <1>7, <3>1 DEF TenantInductive, TenantAsIs, T!AnAdminRemains
  <2> QED
    BY <1>3, <2>1, <2>2
<1>9. TenantAsIs'
  BY <1>2, <1>6, <1>8 DEF TenantInductive, TenantAsIs, T!InvitedAreNew, T!InvitedCanEnter,
     T!AMethodRemains, T!ActiveMethods, T!Opens
<1>10. tenantReq' \in [Clerks -> TenantRows] /\ \A p \in Clerks : tenantReq'[p] = T!Idle
  BY <1>2, <1>3 DEF TenantInductive, TenantShape, TenantNobodyElse, TenantRows
<1>11. TenantShape'
  BY <1>2, <1>5, <1>10 DEF TenantInductive, TenantShape, T!Idle
<1>12. \A p \in Clerks : TenantCounts(p)' /\ TenantResends(p)' /\ TenantRemains(p)'
  BY <1>10 DEF T!Idle, TenantCounts, TenantResends, TenantRemains
<1> QED
  BY <1>2, <1>6, <1>9, <1>11, <1>12 DEF TenantInductive

LEMMA TenantCommitOffKeeps ==
  ASSUME T!Allotted, TenantInductive, NEW r \in Clerks, T!CommitOff(r)
  PROVE  TenantInductive' /\ UNCHANGED <<user, invited, tables>>
<1>1. PICK m \in Methods : tenantReq[r] = [kind |-> "off", of |-> m]
  BY DEF T!CommitOff, TenantInductive, TenantShape, TenantRows, T!Idle
<1>2. /\ method' = [method EXCEPT ![m] = "inactive"]
      /\ tenantReq' = [tenantReq EXCEPT ![r] = T!Idle]
      /\ UNCHANGED <<user, invited, invitePassword, mailed, letter, tables, limit, expired, tenantHolder>>
  BY <1>1 DEF T!CommitOff, T!letters
<1>3. TenantNobodyElse(r) /\ \E x \in Methods \ {m} : method[x] = "active"
  BY <1>1 DEF TenantInductive, TenantRemains
<1>4. T!AMethodRemains'
  <2>1. \A x \in Methods \ {m} : method'[x] = method[x]
    BY <1>2 DEF TenantInductive, TenantShape
  <2> QED
    BY <1>3, <2>1 DEF T!AMethodRemains, T!ActiveMethods
<1>5. TenantAsIs'
  BY <1>2, <1>4 DEF TenantInductive, TenantAsIs, T!InvitedAreNew, T!InvitedCanEnter,
     T!AnAdminRemains, T!Users, T!Admin, T!Opens
<1>6. tenantReq' \in [Clerks -> TenantRows] /\ \A p \in Clerks : tenantReq'[p] = T!Idle
  BY <1>2, <1>3 DEF TenantInductive, TenantShape, TenantNobodyElse, TenantRows
<1>7. TenantShape'
  BY <1>2, <1>6 DEF TenantInductive, TenantShape, T!Idle
<1>8. \A p \in Clerks : TenantCounts(p)' /\ TenantResends(p)' /\ TenantRemains(p)'
  BY <1>6 DEF T!Idle, TenantCounts, TenantResends, TenantRemains
<1> QED
  BY <1>2, <1>5, <1>7, <1>8 DEF TenantInductive

\* Taking up an invitation waits for whoever counts: the invitation becomes an account.
LEMMA TenantConsumeKeeps ==
  ASSUME T!Allotted, TenantInductive, NEW e \in Emails, NEW admin \in BOOLEAN, T!Consume(e, admin)
  PROVE  TenantInductive' /\ T!Seats' = T!Seats /\ UNCHANGED tables
<1> DEFINE new == [active |-> TRUE, admin |-> admin]
<1>1. /\ tenantHolder = Null /\ e \notin T!Users /\ e \in invited /\ letter[e] = Null
      /\ user' = [user EXCEPT ![e] = new] /\ invited' = invited \ {e}
      /\ invitePassword' = [invitePassword EXCEPT ![e] = 0] /\ mailed' = [mailed EXCEPT ![e] = {}]
      /\ UNCHANGED <<letter, tables, method, limit, expired, tenantHolder, tenantReq>>
  BY DEF T!Consume, T!KeyFree, T!Unlocked, T!Gone
<1>2. new \in T!Account /\ new # Null /\ user[e] = Null
  <2>1. new \in T!Account
    BY DEF T!Account
  <2> QED
    BY <1>1, <2>1 DEF T!Allotted, T!Users
<1>3. /\ user' \in [Emails -> T!Account \cup {Null}] /\ user'[e] = new
      /\ \A b \in Emails \ {e} : user'[b] = user[b]
  BY <1>1, <1>2 DEF TenantInductive, TenantShape
<1>4. T!Users' = T!Users \cup {e}
  BY <1>2, <1>3 DEF T!Users
<1>5. T!Seats' = T!Seats
  <2>1. /\ Cardinality(T!Users') = Cardinality(T!Users) + 1
        /\ Cardinality(invited') = Cardinality(invited) - 1
        /\ Cardinality(T!Users) \in Nat /\ Cardinality(invited) \in Nat
    BY <1>1, <1>4, TenantFinite, FS_AddElement, FS_RemoveElement DEF TenantInductive, TenantShape
  <2> QED
    BY <2>1, TenantSets DEF T!Seats
<1>6. TenantShape'
  <2>1. /\ mailed' \in [Emails -> SUBSET Int] /\ \A k \in Emails : IsFiniteSet(mailed'[k])
        /\ invitePassword' \in [Emails -> Int]
    BY <1>1, FS_EmptySet DEF TenantInductive, TenantShape
  <2> QED
    BY <1>1, <1>3, <2>1 DEF TenantInductive, TenantShape
<1>7. \A b \in Emails : T!Admin(b) => T!Admin(b)'
  BY <1>2, <1>3 DEF T!Admin
<1>8. TenantAsIs'
  <2>1. T!InvitedAreNew'
    BY <1>1, <1>4 DEF TenantInductive, TenantAsIs, T!InvitedAreNew
  <2>2. T!InvitedCanEnter'
    BY <1>1 DEF TenantInductive, TenantShape, TenantAsIs, T!InvitedCanEnter, T!Opens
  <2>3. T!AnAdminRemains'
    BY <1>7 DEF TenantInductive, TenantAsIs, T!AnAdminRemains
  <2> QED
    BY <1>1, <2>1, <2>2, <2>3 DEF TenantInductive, TenantAsIs, T!AMethodRemains, T!ActiveMethods
<1>9. ASSUME NEW p \in Clerks PROVE TenantCounts(p)' /\ TenantResends(p)' /\ TenantRemains(p)'
  <2>1. TenantCounts(p) /\ TenantResends(p) /\ TenantRemains(p) /\ p # Null
        /\ (tenantReq[p].kind = "resend" => tenantReq[p].of \in Emails)
    <3>1. TenantCounts(p) /\ TenantResends(p) /\ TenantRemains(p) /\ invited \subseteq Emails
      BY DEF TenantInductive, TenantShape
    <3> QED
      BY <3>1 DEF T!Allotted, TenantResends
  <2>2. TenantCounts(p)'
    BY <1>1, <2>1 DEF TenantCounts
  <2>3. TenantResends(p)'
    <3>1. tenantReq[p].kind = "resend" => tenantReq[p].of # e
      BY <1>1, <2>1 DEF TenantResends
    <3> QED
      BY <1>1, <2>1, <3>1 DEF TenantResends, TenantInductive, TenantShape
  <2>4. TenantRemains(p)'
    BY <1>1, <1>4, <1>7, <2>1 DEF TenantRemains, TenantNobodyElse
  <2> QED
    BY <2>2, <2>3, <2>4
<1> QED
  BY <1>1, <1>5, <1>6, <1>8, <1>9 DEF TenantInductive

\* With an invitation less, what was allowed is still within the plan.
LEMMA TenantCancelKeeps ==
  ASSUME T!Allotted, TenantInductive, NEW e \in Emails, T!CancelInvitation(e)
  PROVE  TenantInductive' /\ T!Seats' <= T!Seats /\ UNCHANGED tables
<1>1. /\ e \in invited /\ letter[e] = Null /\ invited' = invited \ {e}
      /\ invitePassword' = [invitePassword EXCEPT ![e] = 0] /\ mailed' = [mailed EXCEPT ![e] = {}]
      /\ UNCHANGED <<user, letter, tables, method, limit, expired, tenantHolder, tenantReq>>
  BY DEF T!CancelInvitation, T!Unlocked, T!Gone
<1>2. T!Users' = T!Users
  BY <1>1 DEF T!Users
<1>3. /\ Cardinality(invited') = Cardinality(invited) - 1
      /\ Cardinality(T!Users) \in Nat /\ Cardinality(invited) \in Nat
  BY <1>1, TenantFinite, FS_RemoveElement DEF TenantInductive, TenantShape
<1>4. T!Seats' <= T!Seats
  BY <1>2, <1>3, TenantSets DEF T!Seats
<1>5. TenantShape'
  <2>1. /\ mailed' \in [Emails -> SUBSET Int] /\ \A k \in Emails : IsFiniteSet(mailed'[k])
        /\ invitePassword' \in [Emails -> Int]
    BY <1>1, FS_EmptySet DEF TenantInductive, TenantShape
  <2> QED
    BY <1>1, <2>1 DEF TenantInductive, TenantShape
<1>6. TenantAsIs'
  <2>1. T!InvitedCanEnter'
    BY <1>1 DEF TenantInductive, TenantShape, TenantAsIs, T!InvitedCanEnter, T!Opens
  <2> QED
    BY <1>1, <1>2, <2>1 DEF TenantInductive, TenantAsIs, T!InvitedAreNew, T!AnAdminRemains, T!Admin,
       T!AMethodRemains, T!ActiveMethods
<1>7. ASSUME NEW p \in Clerks PROVE TenantCounts(p)' /\ TenantResends(p)' /\ TenantRemains(p)'
  <2>1. TenantCounts(p) /\ TenantResends(p) /\ TenantRemains(p) /\ p # Null
        /\ invited \subseteq Emails /\ tenantReq[p] \in TenantRows /\ limit \in [T!Resources -> Int]
    BY DEF TenantInductive, T!Allotted, TenantShape
  <2>2. tenantReq[p].kind = "create" /\ tenantReq[p].stage = "allowed" =>
          T!Within(tenantReq[p].what, tenantReq[p].n + T!Pending(tenantReq[p].what))'
    <3> SUFFICES ASSUME tenantReq[p].kind = "create", tenantReq[p].stage = "allowed"
                 PROVE  T!Within(tenantReq[p].what, tenantReq[p].n + T!Pending(tenantReq[p].what))'
      OBVIOUS
    <3>1. tenantReq[p].n \in Int /\ tenantReq[p].what \in T!Resources
      BY <2>1 DEF TenantRows, T!Idle
    <3>2. T!Within(tenantReq[p].what, tenantReq[p].n + T!Pending(tenantReq[p].what))
      BY <2>1 DEF TenantCounts
    <3>3. limit[tenantReq[p].what] \in Int
      BY <2>1, <3>1
    <3> QED
      BY <1>1, <1>3, <3>1, <3>2, <3>3, TenantSets DEF T!Within, T!Pending
  <2>3. TenantCounts(p)'
    BY <1>1, <1>2, <2>1, <2>2 DEF TenantCounts
  <2>4. TenantResends(p)'
    BY <1>1, <2>1 DEF TenantResends, TenantInductive, TenantShape
  <2>5. TenantRemains(p)'
    BY <1>1, <1>2, <2>1 DEF TenantRemains, TenantNobodyElse, T!Admin
  <2> QED
    BY <2>3, <2>4, <2>5
<1> QED
  BY <1>1, <1>4, <1>5, <1>6, <1>7 DEF TenantInductive

\* Methods that are switched on, and what the platform does.
LEMMA TenantAroundKeeps ==
  ASSUME T!Allotted, TenantInductive,
         \/ \E m \in Methods : T!SwitchOn(m)
         \/ \E l \in Plans : T!ChangePlan(l) \/ T!EditPlan(l)
         \/ T!TermEnds \/ UNCHANGED T!vars
  PROVE  TenantInductive' /\ UNCHANGED <<user, invited, tables>>
<1>1. UNCHANGED <<user, invited, invitePassword, mailed, letter, tables, tenantHolder, tenantReq>>
  BY DEF T!SwitchOn, T!ChangePlan, T!EditPlan, T!TermEnds, T!vars, T!letters
<1>2. DOMAIN method' = Methods /\ \A m \in Methods : method[m] = "active" => method'[m] = "active"
  BY DEF T!SwitchOn, T!ChangePlan, T!EditPlan, T!TermEnds, T!vars, TenantInductive, TenantShape
<1>3. limit' = limit \/ \A r \in Clerks : tenantReq[r] = T!Idle
  BY DEF T!SwitchOn, T!ChangePlan, T!EditPlan, T!TermEnds, T!vars, T!MayAct, T!Allotted
<1>4. limit' \in [T!Resources -> Int]
  BY DEF T!SwitchOn, T!ChangePlan, T!EditPlan, T!TermEnds, T!vars, TenantInductive, TenantShape,
     T!Allotted
<1>5. TenantShape'
  BY <1>1, <1>2, <1>4 DEF TenantInductive, TenantShape
<1>6. T!Users' = T!Users /\ \A e \in Emails : T!Admin(e)' <=> T!Admin(e)
  BY <1>1 DEF T!Users, T!Admin
<1>7. TenantAsIs'
  <2>1. T!AMethodRemains'
    BY <1>2 DEF TenantInductive, TenantAsIs, T!AMethodRemains, T!ActiveMethods
  <2> QED
    BY <1>1, <1>6, <2>1 DEF TenantInductive, TenantAsIs, T!InvitedAreNew, T!InvitedCanEnter,
       T!AnAdminRemains, T!Opens
<1>8. ASSUME NEW p \in Clerks PROVE TenantCounts(p)' /\ TenantResends(p)' /\ TenantRemains(p)'
  <2>1. TenantCounts(p) /\ TenantResends(p) /\ TenantRemains(p)
    BY DEF TenantInductive
  <2>2. TenantCounts(p)'
    BY <1>1, <1>3, <1>6, <2>1 DEF TenantCounts, T!Within, T!Pending, T!Idle
  <2>3. TenantResends(p)' /\ TenantRemains(p)'
    BY <1>1, <1>2, <1>6, <2>1 DEF TenantResends, TenantRemains, TenantNobodyElse
  <2> QED
    BY <2>2, <2>3
<1> QED
  BY <1>1, <1>5, <1>7, <1>8 DEF TenantInductive

\* Seats and tables grow only within the plan.
TenantGrows ==
  /\ T!Seats' > T!Seats   => T!Within("usuarios", T!Seats)
  /\ tables' > tables     => T!Within("mesas", tables)

TenantNumbers == T!Seats \in Nat /\ tables \in Nat

LEMMA TenantSeats ==
  ASSUME T!Allotted
  PROVE  (TenantInductive => TenantNumbers) /\ (TenantInductive' => TenantNumbers')
<1>1. TenantInductive => TenantNumbers
  BY TenantFinite, TenantSets DEF TenantInductive, TenantShape, T!Seats, TenantNumbers
<1> QED
  BY <1>1, PTL

LEMMA TenantNext ==
  ASSUME T!Allotted, TenantInductive, [T!Next]_(T!vars)
  PROVE  TenantInductive' /\ TenantGrows
<1>1. T!Seats \in Nat /\ tables \in Nat
  BY TenantSeats DEF TenantNumbers
<1>2. UNCHANGED <<user, invited>> => T!Seats' = T!Seats
  BY DEF T!Seats, T!Users
<1>3. ASSUME NEW r \in Clerks, NEW what \in T!Resources, NEW x, T!Enforce(r, what, x)
      PROVE  UNCHANGED <<user, invited, tables>>
  BY <1>3 DEF T!Enforce
<1>4. ASSUME NEW r \in Clerks,
             \/ \E e \in Emails : T!Enforce(r, "usuarios", e) \/ T!Resend(r, e)
             \/ T!Enforce(r, "mesas", Null)
             \/ \E m \in Methods : T!Enforce(r, "metodos_pago_activos", m) \/ T!SwitchOff(r, m)
             \/ T!Count(r) \/ T!Allow(r)
             \/ \E by, e \in Emails, field \in {"active", "admin"}, to \in BOOLEAN :
                  T!Manage(r, by, e, field, to)
      PROVE  TenantInductive' /\ TenantGrows
  <2>1. TenantInductive'
    BY <1>4, TenantEnforceKeeps, TenantResendKeeps, TenantSwitchOffKeeps, TenantCountKeeps,
       TenantAllowKeeps, TenantManageKeeps DEF T!Resources
  <2>2. UNCHANGED <<user, invited, tables>>
    BY <1>4 DEF T!Enforce, T!Resend, T!SwitchOff, T!Count, T!Allow, T!Manage
  <2> QED
    BY <1>1, <1>2, <2>1, <2>2 DEF TenantGrows
<1>5. ASSUME NEW r \in Clerks,
             \/ T!Invite(r) \/ T!AddTable(r) \/ T!AddMethod(r) \/ T!Fail(r)
             \/ T!CommitManage(r) \/ T!CommitOff(r) \/ T!Resends(r)
      PROVE  TenantInductive' /\ TenantGrows
  <2>1. CASE T!Invite(r)
    BY <1>1, <2>1, TenantInviteKeeps DEF TenantGrows
  <2>2. CASE T!AddTable(r)
    BY <1>1, <1>2, <2>2, TenantAddTableKeeps DEF TenantGrows
  <2>3. CASE T!CommitManage(r)
    <3>1. T!Seats' = T!Seats
      BY <2>3, TenantCommitManageKeeps DEF T!Seats
    <3> QED
      BY <1>1, <2>3, <3>1, TenantCommitManageKeeps DEF TenantGrows
  <2>4. CASE T!Fail(r)
    <3>1. UNCHANGED <<user, invited, tables>>
      BY <2>4 DEF T!Fail, T!Ends
    <3> QED
      BY <1>1, <1>2, <2>4, <3>1, TenantFailKeeps DEF TenantGrows
  <2>5. CASE T!AddMethod(r) \/ T!CommitOff(r) \/ T!Resends(r)
    BY <1>1, <1>2, <2>5, TenantAddMethodKeeps, TenantCommitOffKeeps, TenantResendsKeeps
       DEF TenantGrows
  <2> QED
    BY <1>5, <2>1, <2>2, <2>3, <2>4, <2>5
<1>6. ASSUME NEW e \in Emails, (\E admin \in BOOLEAN : T!Consume(e, admin)) \/ T!CancelInvitation(e)
      PROVE  TenantInductive' /\ TenantGrows
  <2>1. TenantInductive' /\ T!Seats' <= T!Seats /\ tables' = tables
    BY <1>1, <1>6, TenantConsumeKeeps, TenantCancelKeeps
  <2> QED
    BY <1>1, <2>1, TenantSeats DEF TenantGrows, TenantNumbers
<1>7. CASE \/ \E m \in Methods : T!SwitchOn(m)
           \/ \E l \in Plans : T!ChangePlan(l) \/ T!EditPlan(l)
           \/ T!TermEnds \/ UNCHANGED T!vars
  BY <1>1, <1>2, <1>7, TenantAroundKeeps DEF TenantGrows
<1> QED
  BY <1>4, <1>5, <1>6, <1>7 DEF T!Next

THEOREM TenantInvariance == ASSUME T!Allotted PROVE T!Spec => []TenantInductive
<1>1. T!Init => TenantInductive
  BY TenantStarts
<1>2. TenantInductive /\ [T!Next]_(T!vars) => TenantInductive'
  BY TenantNext
<1> QED
  BY <1>1, <1>2, PTL DEF T!Spec

\* Whoever takes up an invitation or cancels it meanwhile, a seat or a table is added only within
\* the plan, where no change of the plan overlaps another request.
THEOREM PlanIsKept == ASSUME T!Allotted PROVE T!Spec => WithinPlan
<1>1. T!Init => TenantInductive
  BY TenantStarts
<1>2. TenantInductive /\ [T!Next]_(T!vars) => TenantInductive' /\ [TenantGrows]_(T!vars)
  BY TenantNext
<1> QED
  BY <1>1, <1>2, PTL DEF T!Spec, WithinPlan, T!WithinPlan, TenantGrows

-----------------------------------------------------------------------------
(* One payment method, provided no two edits of its data overlap. *)

\* What a request in flight remembers.
MethodRows ==
  {M!Idle}
    \cup [kind : {"create"}, rule : Rules, set : M!Row]
    \cup [kind : {"info"}, rule : Rules, was : M!Row, set : M!Row]
    \cup [kind : {"switch"}, was : M!Row, set : M!Row]

MethodShape ==
  /\ entry \in [active : BOOLEAN, rule : Rules] /\ methodRow \in M!Row \cup {Null}
  /\ methodReq \in [Clerks -> MethodRows]

\* What a request is going to store is marked by its own rules; until it does, the data it has
\* read is the data that is stored, and nobody else is changing it.
MethodHolds(r) ==
  LET q == methodReq[r]
  IN  /\ q.kind \in {"create", "info"} => (q.set.complete <=> M!Complete(q.rule, q.set.info))
      /\ q.kind = "info" => /\ methodRow \in M!Row
                            /\ methodRow.info = q.was.info /\ methodRow.complete = q.was.complete
                            /\ \A p \in Clerks \ {r} : methodReq[p].kind # "info"
      /\ q.kind = "switch" => /\ methodRow \in M!Row
                              /\ q.set.info = q.was.info /\ q.set.complete = q.was.complete

MethodMarked == methodRow \in M!Row => (methodRow.complete <=> M!Complete(rulesThen, methodRow.info))

MethodInductive == MethodShape /\ MethodMarked /\ \A r \in Clerks : MethodHolds(r)

LEMMA MethodStarts == ASSUME M!EditsAlone, M!Init PROVE MethodInductive
<1>1. MethodShape /\ \A r \in Clerks : methodReq[r].kind = "idle"
  BY DEF M!Init, MethodShape, MethodRows, M!Idle
<1>2. methodRow \notin M!Row
  BY DEF M!Init, M!EditsAlone
<1> QED
  BY <1>1, <1>2 DEF MethodInductive, MethodMarked, MethodHolds

\* A step of one request that does not touch the row.
LEMMA MethodReads ==
  ASSUME MethodInductive, UNCHANGED <<methodRow, rulesThen>>, MethodShape', NEW r \in Clerks,
         \A p \in Clerks \ {r} : methodReq'[p] = methodReq[p],
         MethodHolds(r)',
         \/ methodReq'[r].kind # "info"
         \/ \A p \in Clerks \ {r} : methodReq[p].kind # "info"
  PROVE  MethodInductive'
<1>1. MethodMarked'
  BY DEF MethodInductive, MethodMarked, M!Complete
<1>2. ASSUME NEW p \in Clerks \ {r} PROVE MethodHolds(p)'
  BY DEF MethodInductive, MethodHolds, M!Complete
<1> QED
  BY <1>1, <1>2 DEF MethodInductive

LEMMA MethodStores ==
  ASSUME NEW rule, NEW info \in M!Infos, NEW on \in BOOLEAN
  PROVE  \E s \in M!Row : /\ s = [active |-> on, info |-> info, complete |-> M!Complete(rule, info)]
                          /\ s.info = info /\ (s.complete <=> M!Complete(rule, info))
<1>1. M!Complete(rule, info) \in BOOLEAN
  BY Zenon DEF M!Complete
<1>2. PICK b \in BOOLEAN : b = M!Complete(rule, info)
  BY <1>1
<1>3. [active |-> on, info |-> info, complete |-> b] \in M!Row
  BY DEF M!Row
<1> QED
  BY <1>2, <1>3

LEMMA MethodCreateKeeps ==
  ASSUME M!EditsAlone, MethodInductive, NEW r \in Clerks, NEW info \in M!Infos, M!Create(r, info)
  PROVE  MethodInductive'
<1>1. entry.rule \in Rules
  BY DEF MethodInductive, MethodShape
<1>2. PICK rule \in Rules : rule = entry.rule
  BY <1>1
<1>3. PICK s \in M!Row : /\ s = [active |-> TRUE, info |-> info, complete |-> M!Complete(rule, info)]
                         /\ s.info = info /\ (s.complete <=> M!Complete(rule, info))
  BY MethodStores
<1> DEFINE q == [kind |-> "create", rule |-> rule, set |-> s]
<1>4. methodReq' = [methodReq EXCEPT ![r] = q] /\ UNCHANGED <<entry, methodRow, rulesThen>>
  BY <1>2, <1>3 DEF M!Create
<1>5. q \in MethodRows
  BY DEF MethodRows
<1>6. methodReq'[r] = q /\ \A p \in Clerks \ {r} : methodReq'[p] = methodReq[p]
  BY <1>4 DEF MethodInductive, MethodShape
<1>7. MethodShape'
  BY <1>4, <1>5 DEF MethodInductive, MethodShape
<1>8. MethodHolds(r)'
  BY <1>3, <1>6 DEF MethodHolds, M!Complete
<1> QED
  BY <1>4, <1>6, <1>7, <1>8, MethodReads

\* The data that are judged are those that are going to be stored.
LEMMA MethodEditKeeps ==
  ASSUME M!EditsAlone, MethodInductive, NEW r \in Clerks, NEW sent \in M!Infos, NEW base \in M!Infos,
         M!EditInfo(r, sent, base)
  PROVE  MethodInductive'
<1>1. entry.rule \in Rules /\ methodRow \in M!Row
  BY DEF M!EditInfo, MethodInductive, MethodShape
<1>2. PICK rule \in Rules, was \in M!Row : rule = entry.rule /\ was = methodRow
  BY <1>1
<1>3. was.info \in M!Infos /\ was.active \in BOOLEAN
  BY DEF M!Row
<1>4. M!Resolved(rule, was.info, sent, base) \in M!Infos
  BY <1>3 DEF M!Resolved, M!Infos
<1>5. PICK info \in M!Infos : info = M!Resolved(rule, was.info, sent, base)
  BY <1>4
<1>6. PICK s \in M!Row : /\ s = [active |-> was.active, info |-> info, complete |-> M!Complete(rule, info)]
                         /\ s.info = info /\ (s.complete <=> M!Complete(rule, info))
  BY <1>3, MethodStores
<1>7. s = [was EXCEPT !.info = info, !.complete = M!Complete(rule, info)]
  BY <1>6 DEF M!Row
<1> DEFINE q == [kind |-> "info", rule |-> rule, was |-> was, set |-> s]
<1>8. /\ methodReq' = [methodReq EXCEPT ![r] = q] /\ UNCHANGED <<entry, methodRow, rulesThen>>
      /\ M!MayStart(r, "info")
  BY <1>2, <1>5, <1>7 DEF M!EditInfo, M!Judged
<1>9. q \in MethodRows
  BY DEF MethodRows
<1>10. methodReq'[r] = q /\ \A p \in Clerks \ {r} : methodReq'[p] = methodReq[p]
  BY <1>8 DEF MethodInductive, MethodShape
<1>11. \A p \in Clerks \ {r} : methodReq[p].kind # "info"
  BY <1>8 DEF M!MayStart, M!EditsAlone
<1>12. MethodShape'
  BY <1>8, <1>9 DEF MethodInductive, MethodShape
<1>13. MethodHolds(r)'
  BY <1>2, <1>6, <1>8, <1>10, <1>11 DEF MethodHolds, M!Complete
<1> QED
  BY <1>8, <1>10, <1>11, <1>12, <1>13, MethodReads

LEMMA MethodSwitchKeeps ==
  ASSUME M!EditsAlone, MethodInductive, NEW r \in Clerks, M!Switch(r)
  PROVE  MethodInductive'
<1>1. methodRow \in M!Row
  BY DEF M!Switch, MethodInductive, MethodShape
<1>2. PICK was \in M!Row : was = methodRow
  BY <1>1
<1>3. (~was.active) \in BOOLEAN
  BY Zenon
<1>4. PICK on \in BOOLEAN : on = ~was.active
  BY <1>3
<1>5. PICK s \in M!Row : /\ s = [active |-> on, info |-> was.info, complete |-> was.complete]
                         /\ s.info = was.info /\ s.complete = was.complete
  <2>1. was.info \in M!Infos /\ was.complete \in BOOLEAN
    BY DEF M!Row
  <2>2. [active |-> on, info |-> was.info, complete |-> was.complete] \in M!Row
    BY <2>1 DEF M!Row
  <2> QED
    BY <2>2
<1>6. s = [was EXCEPT !.active = ~was.active]
  BY <1>4, <1>5 DEF M!Row
<1> DEFINE q == [kind |-> "switch", was |-> was, set |-> s]
<1>7. methodReq' = [methodReq EXCEPT ![r] = q] /\ UNCHANGED <<entry, methodRow, rulesThen>>
  BY <1>2, <1>6 DEF M!Switch
<1>8. q \in MethodRows
  BY DEF MethodRows
<1>9. methodReq'[r] = q /\ \A p \in Clerks \ {r} : methodReq'[p] = methodReq[p]
  BY <1>7 DEF MethodInductive, MethodShape
<1>10. MethodShape'
  BY <1>7, <1>8 DEF MethodInductive, MethodShape
<1>11. MethodHolds(r)'
  BY <1>1, <1>5, <1>7, <1>9 DEF MethodHolds
<1> QED
  BY <1>7, <1>9, <1>10, <1>11, MethodReads

LEMMA MethodEnds ==
  ASSUME MethodInductive, NEW r \in Clerks, methodReq' = [methodReq EXCEPT ![r] = M!Idle]
  PROVE  /\ methodReq' \in [Clerks -> MethodRows] /\ methodReq'[r].kind = "idle" /\ MethodHolds(r)'
         /\ \A p \in Clerks \ {r} : methodReq'[p] = methodReq[p]
<1>1. M!Idle \in MethodRows /\ M!Idle.kind = "idle"
  BY DEF MethodRows, M!Idle
<1>2. methodReq'[r] = M!Idle
  BY DEF MethodInductive, MethodShape
<1> QED
  BY <1>1, <1>2 DEF MethodInductive, MethodShape, MethodHolds

LEMMA MethodCommitCreateKeeps ==
  ASSUME M!EditsAlone, MethodInductive, NEW r \in Clerks, M!CommitCreate(r)
  PROVE  MethodInductive'
<1>1. PICK rule \in Rules, s \in M!Row : methodReq[r] = [kind |-> "create", rule |-> rule, set |-> s]
  BY DEF M!CommitCreate, MethodInductive, MethodShape, MethodRows, M!Idle
<1>2. /\ methodRow = Null /\ methodRow' = s /\ rulesThen' = rule /\ UNCHANGED entry
      /\ methodReq' = [methodReq EXCEPT ![r] = M!Idle]
  BY <1>1 DEF M!CommitCreate
<1>3. methodRow \notin M!Row
  BY <1>2 DEF M!EditsAlone
<1>4. MethodShape'
  BY <1>2, MethodEnds DEF MethodInductive, MethodShape
<1>5. MethodMarked'
  <2>1. s.complete <=> M!Complete(rule, s.info)
    BY <1>1 DEF MethodInductive, MethodHolds
  <2> QED
    BY <1>2, <2>1 DEF MethodMarked, M!Complete
<1>6. ASSUME NEW p \in Clerks \ {r} PROVE MethodHolds(p)'
  BY <1>2, <1>3, MethodEnds DEF MethodInductive, MethodHolds, M!Complete
<1> QED
  BY <1>2, <1>4, <1>5, <1>6, MethodEnds DEF MethodInductive

\* The flush writes what the request changed: an edit, the data and their mark; a switch, neither.
LEMMA MethodCommitKeeps ==
  ASSUME M!EditsAlone, MethodInductive, NEW r \in Clerks, M!Commit(r)
  PROVE  MethodInductive'
<1>1. PICK was \in M!Row, s \in M!Row : was = methodReq[r].was /\ s = methodReq[r].set
  BY DEF M!Commit, MethodInductive, MethodShape, MethodRows, M!Idle
<1>2. /\ methodReq[r].kind \in {"info", "switch"} /\ UNCHANGED entry
      /\ methodReq' = [methodReq EXCEPT ![r] = M!Idle]
      /\ methodRow' = [c \in DOMAIN methodRow |-> IF s[c] # was[c] THEN s[c] ELSE methodRow[c]]
      /\ rulesThen' = IF methodReq[r].kind = "info" THEN methodReq[r].rule ELSE rulesThen
  BY <1>1 DEF M!Commit, M!Written
<1>3. methodRow \in M!Row
  BY <1>2 DEF MethodInductive, MethodHolds
<1>4. /\ DOMAIN methodRow = {"active", "info", "complete"}
      /\ methodRow'.active = IF s.active # was.active THEN s.active ELSE methodRow.active
      /\ methodRow'.info = IF s.info # was.info THEN s.info ELSE methodRow.info
      /\ methodRow'.complete = IF s.complete # was.complete THEN s.complete ELSE methodRow.complete
  BY <1>2, <1>3 DEF M!Row
<1>5. methodRow' \in M!Row
  <2>1. methodRow' = [active |-> methodRow'.active, info |-> methodRow'.info,
                      complete |-> methodRow'.complete]
    BY <1>2, <1>4
  <2> QED
    BY <1>3, <1>4, <2>1 DEF M!Row
<1>6. MethodShape'
  BY <1>2, <1>5, MethodEnds DEF MethodInductive, MethodShape
<1>7. CASE methodReq[r].kind = "info"
  <2>1. /\ methodRow.info = was.info /\ methodRow.complete = was.complete
        /\ \A p \in Clerks \ {r} : methodReq[p].kind # "info"
    BY <1>1, <1>7 DEF MethodInductive, MethodHolds
  <2>2. methodRow'.info = s.info /\ methodRow'.complete = s.complete
    BY <1>4, <2>1
  <2>3. MethodMarked'
    <3>1. s.complete <=> M!Complete(methodReq[r].rule, s.info)
      BY <1>1, <1>7 DEF MethodInductive, MethodHolds
    <3> QED
      BY <1>2, <1>7, <2>2, <3>1 DEF MethodMarked, M!Complete
  <2>4. ASSUME NEW p \in Clerks \ {r} PROVE MethodHolds(p)'
    BY <1>2, <1>5, <2>1, MethodEnds DEF MethodInductive, MethodHolds, M!Complete
  <2> QED
    BY <1>2, <1>6, <2>3, <2>4, MethodEnds DEF MethodInductive
<1>8. CASE methodReq[r].kind = "switch"
  <2>1. s.info = was.info /\ s.complete = was.complete
    BY <1>1, <1>8 DEF MethodInductive, MethodHolds
  <2>2. methodRow'.info = methodRow.info /\ methodRow'.complete = methodRow.complete
    BY <1>4, <2>1
  <2>3. MethodMarked'
    BY <1>2, <1>3, <1>8, <2>2 DEF MethodInductive, MethodMarked, M!Complete
  <2>4. ASSUME NEW p \in Clerks \ {r} PROVE MethodHolds(p)'
    <3>1. MethodHolds(p) /\ methodReq'[p] = methodReq[p]
      BY <1>2, MethodEnds DEF MethodInductive
    <3>2. methodReq[p].kind = "info" =>
            /\ methodRow' \in M!Row
            /\ methodRow'.info = methodReq[p].was.info /\ methodRow'.complete = methodReq[p].was.complete
            /\ \A o \in Clerks \ {p} : methodReq'[o].kind # "info"
      BY <1>2, <1>5, <2>2, <3>1, MethodEnds DEF MethodHolds
    <3> QED
      BY <1>5, <3>1, <3>2 DEF MethodHolds, M!Complete
  <2> QED
    BY <1>2, <1>6, <2>3, <2>4, MethodEnds DEF MethodInductive
<1> QED
  BY <1>2, <1>7, <1>8

LEMMA MethodNext ==
  ASSUME M!EditsAlone, MethodInductive, [M!Next]_(M!vars)
  PROVE  MethodInductive'
<1>1. ASSUME NEW r \in Clerks, M!Fail(r) PROVE MethodInductive'
  <2>1. /\ methodReq' = [methodReq EXCEPT ![r] = M!Idle] /\ UNCHANGED <<entry, methodRow, rulesThen>>
    BY <1>1 DEF M!Fail
  <2>2. MethodShape'
    BY <2>1, MethodEnds DEF MethodInductive, MethodShape
  <2> QED
    BY <2>1, <2>2, MethodEnds, MethodReads
<1>2. CASE \/ M!Other \/ UNCHANGED M!vars
           \/ \E a \in BOOLEAN, rule \in Rules : M!EditEntry([active |-> a, rule |-> rule])
  <2>1. UNCHANGED <<methodRow, methodReq, rulesThen>> /\ entry' \in [active : BOOLEAN, rule : Rules]
    BY <1>2 DEF M!Other, M!vars, M!EditEntry, MethodInductive, MethodShape
  <2>2. MethodShape' /\ MethodMarked'
    BY <2>1 DEF MethodInductive, MethodShape, MethodMarked, M!Complete
  <2>3. ASSUME NEW p \in Clerks PROVE MethodHolds(p)'
    BY <2>1 DEF MethodInductive, MethodHolds, M!Complete
  <2> QED
    BY <2>2, <2>3 DEF MethodInductive
<1> QED
  BY <1>1, <1>2, MethodCreateKeeps, MethodEditKeeps, MethodSwitchKeeps, MethodCommitCreateKeeps,
     MethodCommitKeeps DEF M!Next

\* The mark is right whenever there is a method, so the till is offered what is complete.
LEMMA MethodOffers == ASSUME MethodInductive PROVE M!TillOffersComplete
BY DEF MethodInductive, MethodShape, MethodMarked, M!TillOffersComplete, M!AtTheTill

\* Whatever requests and clerks overlap, no invitation is pending for somebody who has an account,
\* each can be taken up, an administrator and a payment method remain, and the till is offered what
\* is complete.
THEOREM TenantStaysUsable ==
  ASSUME T!Allotted, M!EditsAlone PROVE T!Spec /\ M!Spec => []TenantIsUsable
<1>1. TenantInductive => TenantAsIs
  BY DEF TenantInductive
<1>2. M!Init => MethodInductive
  BY MethodStarts
<1>3. MethodInductive /\ [M!Next]_(M!vars) => MethodInductive'
  BY MethodNext
<1>4. MethodInductive => M!TillOffersComplete
  BY MethodOffers
<1>5. TenantAsIs /\ M!TillOffersComplete => TenantIsUsable
  BY DEF TenantAsIs, TenantIsUsable
<1> QED
  BY <1>1, <1>2, <1>3, <1>4, <1>5, TenantInvariance, PTL DEF M!Spec
=============================================================================
