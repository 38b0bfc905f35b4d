--------------------------- MODULE OrderFeedProofs ---------------------------
(***************************************************************************)
(* For any items, screens and requests: what is announced was committed,   *)
(* and a 304 leaves a screen with the page it would have been sent.        *)
(***************************************************************************)
EXTENDS OrderFeed, FiniteSetTheorems, SequenceTheorems, TLAPS

\* All that an event may say of any row.
Facts ==
  {<<"item", i, k>> : i \in Items, k \in Kitchen} \cup {<<"voided", i>> : i \in Items}
    \cup {<<"table", t>> : t \in {"libre", "ocupada"}} \cup {BillChanged}
    \cup {OrderCreated, OrderConfirmed, OrderCancelled, PaymentCompleted, SessionClosed}

\* What a request that has committed may still have to say: what is true, or the item or the
\* table whose state is read when the event is built.
Unbuilt == {<<"item", i>> : i \in Items} \cup {Reread}
Tellable == Unbuilt \cup facts

\* A list of steps is the whole plan of its handler, or what follows its commit.
Honest(q) ==
  /\ q.plan # <<>>
  /\ q.stage = "working" =>
       \/ q.handler \in Handlers /\ q.plan = Plan(q.handler)
       \/ q.plan \in Seq(Tellable)
  /\ q.stage = "telling" => q.plan \in Seq(Tellable) /\ Head(q.plan) \in facts

Stages == {"new", "working", "telling", "done"}
Going  == {"working", "telling"}

Steps == Unbuilt \cup Facts \cup {Commits}
PlanRow == [stage : Going, handler : Handlers, plan : Seq(Steps)]
RequestRow == {[stage |-> "new"], Done} \cup PlanRow

\* The inductive invariant of what is told.
ToldInv ==
  /\ db \in Row
  /\ facts \subseteq Facts /\ FactsOf(db) \subseteq facts
  /\ req \in [Requests -> RequestRow]
  /\ \A r \in Requests : req[r].stage \in Going => Honest(req[r])
  /\ stream \in Seq(facts)

-----------------------------------------------------------------------------
(* Facts. *)

\* What is true of a row.
LEMMA FactsAre ==
  ASSUME NEW d \in Row
  PROVE  /\ \A i \in Items : <<"item", i, d.kitchen[i]>> \in FactsOf(d)
         /\ \A i \in Items : d.kitchen[i] = "anulado" => ItemVoided(i) \in FactsOf(d)
         /\ <<"table", d.table>> \in FactsOf(d)
         /\ BillChanged \in FactsOf(d)
         /\ d.status # "ausente" => OrderCreated \in FactsOf(d)
         /\ d.status \notin {"ausente", "recibida", "cancelada"} => OrderConfirmed \in FactsOf(d)
         /\ d.status = "cancelada" => OrderCancelled \in FactsOf(d)
         /\ d.sale => PaymentCompleted \in FactsOf(d)
         /\ d.session = "closed" => SessionClosed \in FactsOf(d)
  <1>1. \A i \in Items : <<"item", i, d.kitchen[i]>> \in FactsOf(d)
    BY DEF FactsOf
  <1>2. \A i \in Items : d.kitchen[i] = "anulado" => ItemVoided(i) \in FactsOf(d)
    BY DEF FactsOf, ItemVoided
  <1>3. <<"table", d.table>> \in FactsOf(d) /\ BillChanged \in FactsOf(d)
    BY DEF FactsOf, BillChanged
  <1>4. d.status # "ausente" => OrderCreated \in FactsOf(d)
    BY DEF FactsOf, OrderCreated
  <1>5. d.status \notin {"ausente", "recibida", "cancelada"} => OrderConfirmed \in FactsOf(d)
    BY DEF FactsOf, OrderConfirmed
  <1>6. d.status = "cancelada" => OrderCancelled \in FactsOf(d)
    BY DEF FactsOf, OrderCancelled
  <1>7. d.sale => PaymentCompleted \in FactsOf(d)
    BY DEF FactsOf, PaymentCompleted
  <1>8. d.session = "closed" => SessionClosed \in FactsOf(d)
    BY DEF FactsOf, SessionClosed
  <1> QED BY <1>1, <1>2, <1>3, <1>4, <1>5, <1>6, <1>7, <1>8

\* They are among those of any row.
LEMMA FactsTyped ==
  ASSUME NEW d \in Row
  PROVE  FactsOf(d) \subseteq Facts
  <1> SUFFICES ASSUME NEW f \in FactsOf(d) PROVE f \in Facts
    OBVIOUS
  <1>1. d.kitchen \in [Items -> Kitchen] /\ d.table \in {"libre", "ocupada"}
    BY DEF Row
  <1>2. CASE \E i \in Items : f = <<"item", i, d.kitchen[i]>>
    BY <1>1, <1>2 DEF Facts
  <1>3. CASE \E i \in Items : f = <<"voided", i>>
    BY <1>3 DEF Facts
  <1>4. CASE f = <<"table", d.table>>
    BY <1>1, <1>4 DEF Facts
  <1>5. CASE f \in {<<"bill">>, <<"created">>, <<"confirmed">>, <<"cancelled">>, <<"paid">>,
                    <<"closed">>}
    BY <1>5 DEF Facts, BillChanged, OrderCreated, OrderConfirmed, OrderCancelled,
                PaymentCompleted, SessionClosed
  <1> QED BY <1>2, <1>3, <1>4, <1>5 DEF FactsOf

\* No fact is a commit; what names an item or a table without its state is built.
LEMMA FactsNamed ==
  /\ Commits \notin Facts \cup Unbuilt
  /\ \A f \in Facts : f[1] \in {"item", "voided", "table", "bill", "created", "confirmed",
                                "cancelled", "paid", "closed"}
  <1>1. \A f \in Facts : f[1] \in {"item", "voided", "table", "bill", "created", "confirmed",
                                   "cancelled", "paid", "closed"}
    BY DEF Facts, BillChanged, OrderCreated, OrderConfirmed, OrderCancelled,
           PaymentCompleted, SessionClosed
  <1>2. \A f \in Unbuilt : f[1] \in {"item", "table"}
    BY DEF Unbuilt, Reread
  <1>3. Commits[1] = "commit"
    BY DEF Commits
  <1> QED BY <1>1, <1>2, <1>3

-----------------------------------------------------------------------------
(* Handlers. *)

\* The items of a finite set, one after the other.
LEMMA SetToSeqIs ==
  ASSUME NEW S, IsFiniteSet(S)
  PROVE  SetToSeq(S) \in Seq(S)
  <1>1. Cardinality(S) \in Nat /\ ExistsBijection(1 .. Cardinality(S), S)
    BY FS_CardinalityType
  <1>2. PICK f : f \in Bijection(1 .. Cardinality(S), S)
    BY <1>1 DEF ExistsBijection
  <1>3. f \in [1 .. Cardinality(S) -> S] /\ IsInjective(f)
    BY <1>2 DEF Bijection, Injection
  <1>4. SetToSeq(S) \in [1 .. Cardinality(S) -> S]
    BY <1>3 DEF SetToSeq
  <1> QED BY <1>1, <1>4, SeqDef

\* What a handler says is a state to be read, or true of what it writes, and depends on
\* nothing else; it writes a row.
Says(h) == Handler(h).says \in Seq(Unbuilt \cup FactsOf(Handler(h).writes))

LEMMA SeqOfOne == ASSUME NEW S, NEW a \in S PROVE <<a>> \in Seq(S)
  OBVIOUS
LEMMA SeqOfTwo == ASSUME NEW S, NEW a \in S, NEW b \in S PROVE <<a, b>> \in Seq(S)
  OBVIOUS
LEMMA SeqOfThree ==
  ASSUME NEW S, NEW a \in S, NEW b \in S, NEW c \in S PROVE <<a, b, c>> \in Seq(S)
  OBVIOUS

LEMMA SeqOfMore ==
  ASSUME NEW S, NEW T, S \subseteq T, NEW s \in Seq(S) PROVE s \in Seq(T)
  OBVIOUS

LEMMA NamedAreFinite ==
  ASSUME NEW S, IsFiniteSet(S)
  PROVE  IsFiniteSet({<<"item", i>> : i \in S})
  <1> DEFINE f == [i \in S |-> <<"item", i>>]
             T == {<<"item", i>> : i \in S}
  <1>1. f \in Surjection(S, T)
    BY DEF Surjection
  <1> HIDE DEF T, f
  <1>2. IsFiniteSet(T)
    BY <1>1, FS_Surjection
  <1> QED BY <1>2 DEF T

LEMMA Handles ==
  ASSUME db \in Row, NEW h \in Handlers
  PROVE  Handler(h).writes \in Row /\ Says(h) /\ Handler(h).says' = Handler(h).says
  <1>0. Reread \in Unbuilt /\ \A i \in Items : <<"item", i>> \in Unbuilt
    BY DEF Unbuilt
  <1> DEFINE d == Handler(h).writes
             All == Unbuilt \cup FactsOf(d)
  <1>1. CASE h[1] = "submit"
    <2>1. Handler(h) = SubmitCart /\ Handler(h)' = SubmitCart'
      BY <1>1 DEF Handler
    <2>2. d \in Row /\ d.status = "recibida"
      BY <2>1 DEF SubmitCart, Row, Statuses, Terminal
    <2>3. OrderCreated \in All
      BY <1>0, <2>2, FactsAre
    <2>4. Handler(h).says = <<OrderCreated>> /\ Handler(h).says' = <<OrderCreated>>
      BY <2>1 DEF SubmitCart
    <2> QED BY <2>2, <2>3, <2>4, SeqOfOne DEF Says
  <1>2. CASE h[1] = "confirm"
    <2>1. Handler(h) = ConfirmOrder /\ Handler(h)' = ConfirmOrder'
      BY <1>2 DEF Handler
    <2>2. d \in Row /\ d.status = "abierta"
      BY <2>1 DEF ConfirmOrder, Row, Statuses, Terminal
    <2>3. OrderConfirmed \in All /\ BillChanged \in All
      BY <1>0, <2>2, FactsAre
    <2>4. Handler(h).says = <<OrderConfirmed, BillChanged>> /\ Handler(h).says' = <<OrderConfirmed, BillChanged>>
      BY <2>1 DEF ConfirmOrder
    <2> QED BY <2>2, <2>3, <2>4, SeqOfTwo DEF Says
  <1>3. CASE h[1] = "pay"
    <2>1. Handler(h) = PayOrder /\ Handler(h)' = PayOrder'
      BY <1>3 DEF Handler
    <2>2. d = [db EXCEPT !.status = "pagada", !.sale = TRUE]
      BY <2>1 DEF PayOrder
    <2>3. d = [status |-> "pagada", sale |-> TRUE, kitchen |-> db.kitchen,
               session |-> db.session, table |-> db.table]
      BY <2>2 DEF Row
    <2>4. d \in Row /\ d.sale
      BY <2>3 DEF Row, Statuses, Terminal
    <2>5. PaymentCompleted \in All
      BY <1>0, <2>4, FactsAre
    <2>6. Handler(h).says = <<PaymentCompleted>> /\ Handler(h).says' = <<PaymentCompleted>>
      BY <2>1 DEF PayOrder
    <2> QED BY <2>4, <2>5, <2>6, SeqOfOne DEF Says
  <1>4. CASE h[1] = "checkout"
    <2>1. Handler(h) = CheckoutAndSend /\ Handler(h)' = CheckoutAndSend'
      BY <1>4 DEF Handler
    <2>2. d = [db EXCEPT !.status = "abierta", !.sale = TRUE]
      BY <2>1 DEF CheckoutAndSend
    <2>3. d = [status |-> "abierta", sale |-> TRUE, kitchen |-> db.kitchen,
               session |-> db.session, table |-> db.table]
      BY <2>2 DEF Row
    <2>4. d \in Row /\ d.status = "abierta" /\ d.sale
      BY <2>3 DEF Row, Statuses, Terminal
    <2>5. PaymentCompleted \in All /\ OrderConfirmed \in All /\ BillChanged \in All
      BY <1>0, <2>4, FactsAre
    <2>6. Handler(h).says = <<PaymentCompleted, OrderConfirmed, BillChanged>> /\ Handler(h).says' = <<PaymentCompleted, OrderConfirmed, BillChanged>>
      BY <2>1 DEF CheckoutAndSend
    <2> QED BY <2>4, <2>5, <2>6, SeqOfThree DEF Says
  <1>5. CASE h[1] = "cancel"
    <2>1. Handler(h) = CancelOrder /\ Handler(h)' = CancelOrder'
      BY <1>5 DEF Handler
    <2>2. d \in Row /\ d.status = "cancelada"
      BY <2>1 DEF CancelOrder, Row, Statuses, Terminal
    <2>3. OrderCancelled \in All /\ BillChanged \in All
      BY <1>0, <2>2, FactsAre
    <2>4. Handler(h).says = <<OrderCancelled, BillChanged>> /\ Handler(h).says' = <<OrderCancelled, BillChanged>>
      BY <2>1 DEF CancelOrder
    <2> QED BY <2>2, <2>3, <2>4, SeqOfTwo DEF Says
  <1>6. CASE h[1] = "mine"
    <2>1. Handler(h) = CancelMyOrder /\ Handler(h)' = CancelMyOrder'
      BY <1>6 DEF Handler
    <2>2. d \in Row /\ d.status = "cancelada"
      BY <2>1 DEF CancelMyOrder, CancelOrder, Row, Statuses, Terminal
    <2>3. OrderCancelled \in All /\ BillChanged \in All
      BY <1>0, <2>2, FactsAre
    <2>4. Handler(h).says = <<OrderCancelled, BillChanged>> /\ Handler(h).says' = <<OrderCancelled, BillChanged>>
      BY <2>1 DEF CancelMyOrder, CancelOrder
    <2> QED BY <2>2, <2>3, <2>4, SeqOfTwo DEF Says
  <1>7. CASE h[1] = "close"
    <2>1. Handler(h) = CloseSession /\ Handler(h)' = CloseSession'
      BY <1>7 DEF Handler
    <2>2. d = [db EXCEPT !.status = "pagada", !.sale = TRUE, !.session = "closed",
                         !.table = "libre"]
      BY <2>1 DEF CloseSession
    <2>3. d = [status |-> "pagada", sale |-> TRUE, kitchen |-> db.kitchen,
               session |-> "closed", table |-> "libre"]
      BY <2>2 DEF Row
    <2>4. d \in Row /\ d.sale /\ d.session = "closed" /\ d.table = "libre"
      BY <2>3 DEF Row, Statuses, Terminal
    <2>5. PaymentCompleted \in All /\ SessionClosed \in All /\ TableFreed \in All
      BY <1>0, <2>4, FactsAre DEF TableFreed
    <2>6. Handler(h).says = <<PaymentCompleted, SessionClosed, TableFreed>> /\ Handler(h).says' = <<PaymentCompleted, SessionClosed, TableFreed>>
      BY <2>1 DEF CloseSession
    <2> QED BY <2>4, <2>5, <2>6, SeqOfThree DEF Says
  <1>8. CASE h[1] = "release"
    <2>1. Handler(h) = ReleasePaidSession /\ Handler(h)' = ReleasePaidSession'
      BY <1>8 DEF Handler
    <2>2. d = [db EXCEPT !.session = "closed", !.table = "libre"]
      BY <2>1 DEF ReleasePaidSession
    <2>3. d = [status |-> db.status, sale |-> db.sale, kitchen |-> db.kitchen,
               session |-> "closed", table |-> "libre"]
      BY <2>2 DEF Row
    <2>4. d \in Row /\ d.session = "closed" /\ d.table = "libre"
      BY <2>3 DEF Row, Statuses, Terminal
    <2>5. SessionClosed \in All /\ TableFreed \in All
      BY <1>0, <2>4, FactsAre DEF TableFreed
    <2>6. Handler(h).says = <<SessionClosed, TableFreed>> /\ Handler(h).says' = <<SessionClosed, TableFreed>>
      BY <2>1 DEF ReleasePaidSession
    <2> QED BY <2>4, <2>5, <2>6, SeqOfTwo DEF Says
  <1>9. CASE h[1] = "free"
    <2>1. Handler(h) = ReleaseTable /\ Handler(h)' = ReleaseTable'
      BY <1>9 DEF Handler
    <2>2. d = [db EXCEPT !.session = "closed", !.table = "libre"]
      BY <2>1 DEF ReleaseTable
    <2>3. d = [status |-> db.status, sale |-> db.sale, kitchen |-> db.kitchen,
               session |-> "closed", table |-> "libre"]
      BY <2>2 DEF Row
    <2>4. d \in Row /\ d.session = "closed"
      BY <2>3 DEF Row, Statuses, Terminal
    <2>5. Reread \in All /\ SessionClosed \in All
      BY <1>0, <2>4, FactsAre
    <2>6. Handler(h).says = <<Reread, SessionClosed>> /\ Handler(h).says' = <<Reread, SessionClosed>>
      BY <2>1 DEF ReleaseTable
    <2> QED BY <2>4, <2>5, <2>6, SeqOfTwo DEF Says
  <1>10. CASE h[1] = "mark"
    <2>1. Handler(h) = SetTableStatus /\ Handler(h)' = SetTableStatus'
      BY <1>10 DEF Handler
    <2>2. d \in Row
      BY <2>1 DEF SetTableStatus, Row, Statuses, Terminal
    <2>3. Reread \in All
      BY <1>0, <2>2, FactsAre
    <2>4. Handler(h).says = <<Reread>> /\ Handler(h).says' = <<Reread>>
      BY <2>1 DEF SetTableStatus
    <2> QED BY <2>2, <2>3, <2>4, SeqOfOne DEF Says
  <1>11. CASE h[1] = "kitchen"
    <2>1. PICK i \in Items, to \in {"en_preparacion", "listo"} : h = <<"kitchen", i, to>>
      BY <1>11 DEF Handlers
    <2>2. /\ Handler(h) = KitchenTransition(i, to)
          /\ Handler(h)' = KitchenTransition(i, to)'
      BY <2>1 DEF Handler
    <2>3. d \in Row
      BY <2>2 DEF KitchenTransition, Row, Kitchen
    <2>4. Handler(h).says = <<<<"item", i>>>> /\ Handler(h).says' = <<<<"item", i>>>>
      BY <2>2 DEF KitchenTransition
    <2> QED BY <1>0, <2>3, <2>4, SeqOfOne DEF Says
  <1>12. CASE h[1] = "void"
    <2>1. PICK i \in Items : h = <<"void", i>>
      BY <1>12 DEF Handlers
    <2>2. Handler(h) = VoidItem(i) /\ Handler(h)' = VoidItem(i)'
      BY <2>1 DEF Handler
    <2>3. d \in Row /\ d.kitchen[i] = "anulado"
      BY <2>2 DEF VoidItem, Row, Kitchen
    <2>4. ItemVoided(i) \in All /\ BillChanged \in All
      BY <2>3, FactsAre
    <2>5. /\ Handler(h).says = <<ItemVoided(i), BillChanged>>
          /\ Handler(h).says' = <<ItemVoided(i), BillChanged>>
      BY <2>2 DEF VoidItem, ItemVoided, BillChanged
    <2> QED BY <2>3, <2>4, <2>5, SeqOfTwo DEF Says
  <1>13. CASE h[1] = "ready"
    <2>1. PICK S \in SUBSET Items : h = <<"ready", S>>
      BY <1>13 DEF Handlers
    <2> DEFINE Named == {<<"item", i>> : i \in S}
    <2>2. Handler(h) = OrderReady(S) /\ Handler(h)' = OrderReady(S)'
      BY <2>1 DEF Handler
    <2>3. d \in Row
      BY <2>2 DEF OrderReady, Row, Kitchen
    <2>4. Handler(h).says = SetToSeq(Named) /\ Handler(h).says' = SetToSeq(Named)
      BY <2>2 DEF OrderReady
    <2>5. IsFiniteSet(Named)
      BY OrderFeedAssumption, FS_Subset, NamedAreFinite
    <2>6. SetToSeq(Named) \in Seq(Named) /\ Named \subseteq All
      BY <1>0, <2>5, SetToSeqIs
    <2> HIDE DEF Named, All
    <2>7. SetToSeq(Named) \in Seq(All)
      BY <2>6, SeqOfMore
    <2> QED BY <2>3, <2>4, <2>7 DEF Says, All
  <1>14. h[1] \in {"submit", "confirm", "pay", "checkout", "cancel", "mine", "close", "release",
                   "free", "mark", "kitchen", "void", "ready"}
    BY DEF Handlers
  <1> QED BY <1>1, <1>2, <1>3, <1>4, <1>5, <1>6, <1>7, <1>8, <1>9, <1>10, <1>11, <1>12, <1>13, <1>14
-----------------------------------------------------------------------------
(* Requests. *)

LEMMA PlanIs ==
  ASSUME db \in Row, NEW h \in Handlers
  PROVE  LET p == Plan(h)
         IN  /\ p \in Seq(Steps) /\ p # <<>> /\ Head(p) = Commits
             /\ Tail(p) = Handler(h).says /\ Plan(h)' = p
  <1> DEFINE t == Handler(h).says
  <1>1. t \in Seq(Unbuilt \cup FactsOf(Handler(h).writes)) /\ Handler(h).writes \in Row /\ t' = t
    BY Handles DEF Says
  <1>2. Unbuilt \cup FactsOf(Handler(h).writes) \subseteq Steps
    BY <1>1, FactsTyped DEF Steps
  <1>3. t \in Seq(Steps) /\ Commits \in Steps
    BY <1>1, <1>2, SeqOfMore DEF Steps
  <1>4. Plan(h) = <<Commits>> \o t /\ Plan(h)' = <<Commits>> \o t
    BY <1>1 DEF Plan, Commits
  <1> HIDE DEF t
  <1>5. /\ <<Commits>> \o t \in Seq(Steps) /\ <<Commits>> \o t # <<>>
        /\ Head(<<Commits>> \o t) = Commits /\ Tail(<<Commits>> \o t) = t
    BY <1>3
  <1> QED BY <1>4, <1>5 DEF t

\* An event is built true of a row: it was so already, or the row says it.
LEMMA BuiltIsTrue ==
  ASSUME NEW d \in Row, NEW F, F \subseteq Facts, FactsOf(d) \subseteq F, NEW e \in Unbuilt \cup F
  PROVE  Built(e, d) \in F
  <1>1. CASE \E i \in Items : e = <<"item", i>>
    <2>1. PICK i \in Items : e = <<"item", i>>
      BY <1>1
    <2>2. e[1] = "item" /\ e[2] = i /\ e # Reread
      BY <2>1 DEF Reread
    <2>3. Built(e, d) = ItemKitchenChanged(i, d)
      BY <2>2 DEF Built
    <2> QED BY <2>3, FactsAre DEF ItemKitchenChanged
  <1>2. CASE e = Reread
    BY <1>2, FactsAre DEF Built, Reread, TableStatusChanged
  <1>3. CASE \E i \in Items, k \in Kitchen : e = <<"item", i, k>>
    <2>1. PICK i \in Items, k \in Kitchen : e = <<"item", i, k>>
      BY <1>3
    <2>2. e[1] = "item" /\ e[2] = i /\ e # Reread
      BY <2>1 DEF Reread
    <2>3. Built(e, d) = ItemKitchenChanged(i, d)
      BY <2>2 DEF Built
    <2> QED BY <2>3, FactsAre DEF ItemKitchenChanged
  <1>4. CASE e \in F /\ e[1] # "item" /\ e # Reread
    BY <1>4 DEF Built
  <1>5. \A f \in Facts : f[1] = "item" => \E i \in Items, k \in Kitchen : f = <<"item", i, k>>
    BY DEF Facts, BillChanged, OrderCreated, OrderConfirmed, OrderCancelled, PaymentCompleted,
           SessionClosed
  <1> QED BY <1>1, <1>2, <1>3, <1>4, <1>5 DEF Unbuilt

LEMMA GoingIs ==
  ASSUME NEW q \in RequestRow, q.stage \in Going
  PROVE  q \in PlanRow
  BY DEF RequestRow, Done, Going

\* What a request has to tell stays true, or to be read.
LEMMA HonestStays ==
  ASSUME db \in Row, facts \subseteq facts', NEW q \in PlanRow, Honest(q)
  PROVE  Honest(q)'
  <1>1. Seq(Tellable) \subseteq Seq(Tellable')
    BY SeqOfMore DEF Tellable, Unbuilt, Reread
  <1>2. \A h \in Handlers : Plan(h)' = Plan(h)
    BY PlanIs
  <1> QED BY <1>1, <1>2 DEF Honest

\* A request changes its own row.
LEMMA RowTold ==
  ASSUME ToldInv, NEW r \in Requests, NEW q \in RequestRow, req' = [req EXCEPT ![r] = q],
         q.stage \in Going => Honest(q)',
         db' \in Row, facts \subseteq facts', facts' \subseteq Facts, FactsOf(db)' \subseteq facts',
         stream' \in Seq(facts')
  PROVE  ToldInv'
  <1>1. req' \in [Requests -> RequestRow]
    BY DEF ToldInv
  <1>2. ASSUME NEW s \in Requests, req[s].stage' \in Going PROVE Honest(req[s])'
    <2>1. CASE s = r
      BY <1>2, <2>1 DEF ToldInv
    <2>2. CASE s # r
      <3>1. PICK p : p = req[s]
        OBVIOUS
      <3>2. req'[s] = p /\ p \in PlanRow /\ Honest(p)
        BY <1>2, <2>2, <3>1, GoingIs DEF ToldInv
      <3> QED BY <3>2, HonestStays DEF ToldInv
    <2> QED BY <2>1, <2>2
  <1> QED BY <1>1, <1>2 DEF ToldInv

\* What a request does next, its plan shortened by its first step.
LEMMA FinishedIs ==
  ASSUME NEW q \in PlanRow, NEW p \in Seq(Steps)
  PROVE  LET row == Finished([q EXCEPT !.plan = p, !.stage = "working"])
         IN  /\ row \in RequestRow
             /\ row.stage \in Going => row.stage = "working" /\ row.plan = p /\ p # <<>>
  <1> DEFINE new == [q EXCEPT !.plan = p, !.stage = "working"]
  <1>1. CASE p = <<>>
    BY <1>1 DEF Finished, RequestRow, Done, Going, PlanRow
  <1>2. CASE p # <<>>
    <2>1. new \in PlanRow /\ new.plan = p /\ new.stage = "working"
      BY DEF PlanRow, Going
    <2>2. Finished(new) = new
      BY <1>2, <2>1 DEF Finished
    <2> QED BY <1>2, <2>1, <2>2 DEF RequestRow
  <1> QED BY <1>1, <1>2

-----------------------------------------------------------------------------
(* Steps. *)

LEMMA BeginTold ==
  ASSUME ToldInv, NEW r \in Requests, NEW h \in Handlers, Begin(r, h)
  PROVE  ToldInv'
  <1>1. PICK q : q = [stage |-> "working", handler |-> h, plan |-> Plan(h)]
    OBVIOUS
  <1>2. /\ Plan(h) \in Seq(Steps) /\ Plan(h) # <<>> /\ Plan(h)' = Plan(h)
    BY PlanIs DEF ToldInv
  <1>3. q \in RequestRow
    BY <1>1, <1>2 DEF RequestRow, PlanRow, Going
  <1>4. Honest(q)'
    BY <1>1, <1>2 DEF Honest
  <1> QED BY <1>1, <1>3, <1>4, RowTold DEF Begin, ToldInv

LEMMA CommitTold ==
  ASSUME ToldInv, NEW r \in Requests, Commit(r)
  PROVE  ToldInv'
  <1> DEFINE q == req[r]
             d == Handler(q.handler).writes
  <1>1. q \in PlanRow /\ Honest(q) /\ q.stage = "working" /\ Head(q.plan) = Commits
    BY GoingIs DEF ToldInv, Commit, Going
  <1>2. q.handler \in Handlers /\ q.plan = Plan(q.handler)
    <2>1. ASSUME q.plan \in Seq(Tellable) PROVE FALSE
      <3>1. Head(q.plan) \in Tellable
        BY <1>1, <2>1 DEF Honest
      <3> QED BY <1>1, <3>1, FactsNamed DEF Tellable, ToldInv
    <2> QED BY <1>1, <2>1 DEF Honest
  <1>3. /\ d \in Row /\ Tail(q.plan) \in Seq(Unbuilt \cup FactsOf(d))
    BY <1>2, Handles, PlanIs DEF ToldInv, Says
  <1>4. FactsOf(d) \subseteq Facts /\ FactsOf(db) \subseteq Facts
    BY <1>3, FactsTyped DEF ToldInv
  <1>5. CASE Handler(q.handler).locked
    <2>1. db' = d /\ facts' = facts \cup FactsOf(db') /\ stream' = stream
      BY <1>5 DEF Commit
    <2>2. FactsOf(db') = FactsOf(db)'
      BY DEF FactsOf
    <2>3. FactsOf(db') = FactsOf(d)
      BY <2>1
    <2>4. PICK row : row = Finished([q EXCEPT !.plan = Tail(q.plan)])
      OBVIOUS
    <2>5. /\ Unbuilt \cup FactsOf(d) \subseteq Tellable' /\ Unbuilt \cup FactsOf(d) \subseteq Steps
      BY <1>4, <2>1, <2>3 DEF Tellable, Steps, Unbuilt, Reread
    <2>6. PICK p : p = Tail(q.plan)
      OBVIOUS
    <2>7. p \in Seq(Tellable)' /\ p \in Seq(Steps)
      BY <1>3, <2>5, <2>6, SeqOfMore
    <2>8. PICK old : old = q
      OBVIOUS
    <2>9. row = Finished([old EXCEPT !.plan = p, !.stage = "working"])
      BY <1>1, <2>4, <2>6, <2>8 DEF PlanRow, Finished
    <2>10. row \in RequestRow /\ (row.stage \in Going => Honest(row)')
      <3>1. old \in PlanRow
        BY <1>1, <2>8
      <3>2. /\ row \in RequestRow
            /\ row.stage \in Going => row.stage = "working" /\ row.plan = p /\ p # <<>>
        BY <2>7, <2>9, <3>1, FinishedIs
      <3> QED BY <2>7, <3>2 DEF Honest
    <2>11. req' = [req EXCEPT ![r] = row]
      BY <1>5, <2>4 DEF Commit
    <2>12. facts \subseteq facts' /\ facts' \subseteq Facts /\ FactsOf(db)' \subseteq facts'
      BY <1>4, <2>1, <2>2, <2>3 DEF ToldInv
    <2>13. stream' \in Seq(facts')
      BY <2>1, <2>12, SeqOfMore DEF ToldInv
    <2> QED BY <1>3, <2>1, <2>10, <2>11, <2>12, <2>13, RowTold
  <1>6. CASE ~Handler(q.handler).locked
    <2>1. /\ req' = [req EXCEPT ![r] = Done] /\ db' = db /\ stream' = stream
          /\ facts' = facts \cup FactsOf(db')
      BY <1>6 DEF Commit
    <2>2. FactsOf(db') = FactsOf(db)' /\ FactsOf(db') = FactsOf(db)
      BY <2>1 DEF FactsOf
    <2>3. facts' = facts
      BY <2>1, <2>2 DEF ToldInv
    <2>4. Done \in RequestRow /\ Done.stage \notin Going
      BY DEF RequestRow, Done, Going
    <2> QED BY <2>1, <2>2, <2>3, <2>4, RowTold DEF ToldInv
  <1> QED BY <1>5, <1>6
LEMMA BuildTold ==
  ASSUME ToldInv, NEW r \in Requests, Build(r)
  PROVE  ToldInv'
  <1>1. PICK q : q = req[r]
    OBVIOUS
  <1>2. /\ q \in PlanRow /\ Honest(q) /\ q.stage = "working" /\ Head(q.plan) # Commits
        /\ UNCHANGED <<db, facts, stream, screen>>
    BY <1>1, GoingIs DEF ToldInv, Build, Going
  <1>3. /\ q.plan \in Seq(Tellable) /\ q.plan # <<>>
    BY <1>2, PlanIs DEF Honest, ToldInv
  <1>4. \A k \in DOMAIN q.plan : q.plan[k] # Commits
    <2>1. Commits \notin Tellable
      BY FactsNamed DEF Tellable, ToldInv
    <2> QED BY <1>3, <2>1
  <1>5. SeenBy(q) = db
    BY <1>4 DEF SeenBy
  <1>6. PICK e : e = Built(Head(q.plan), db)
    OBVIOUS
  <1>7. e \in facts
    <2>1. PICK f : f = Head(q.plan)
      OBVIOUS
    <2>2. f \in Tellable
      BY <1>3, <2>1
    <2>3. CASE f \in facts
      BY <1>6, <2>1, <2>3, BuiltIsTrue DEF ToldInv
    <2>4. CASE f \in Unbuilt
      BY <1>6, <2>1, <2>4, BuiltIsTrue DEF ToldInv
    <2> QED BY <2>2, <2>3, <2>4 DEF Tellable
  <1>8. PICK row : row = [q EXCEPT !.stage = "telling", !.plan = [@ EXCEPT ![1] = e]]
    OBVIOUS
  <1>9. req' = [req EXCEPT ![r] = row]
    BY <1>1, <1>5, <1>6, <1>8 DEF Build, ToldInv, PlanRow
  <1>10. PICK p : p = [q.plan EXCEPT ![1] = e]
    OBVIOUS
  <1>11. p \in Seq(Tellable) /\ p # <<>> /\ Head(p) = e /\ p \in Seq(Steps)
    <2>1. e \in Tellable /\ e \in Steps /\ q.plan \in Seq(Steps)
      BY <1>2, <1>7 DEF Tellable, Steps, ToldInv, PlanRow
    <2> QED BY <1>3, <1>10, <2>1
  <1>12. row \in PlanRow /\ row.plan = p /\ row.stage = "telling"
    BY <1>2, <1>8, <1>10, <1>11 DEF PlanRow, Going
  <1>13. Honest(row)'
    BY <1>2, <1>7, <1>11, <1>12 DEF Honest, Tellable
  <1> QED BY <1>2, <1>9, <1>12, <1>13, RowTold DEF ToldInv, RequestRow

\* What a screen does tells nobody anything.
LEMMA ScreenTold ==
  ASSUME ToldInv, UNCHANGED <<db, facts, req, stream>>
  PROVE  ToldInv'
  <1>1. Seq(facts)' = Seq(facts) /\ FactsOf(db)' = FactsOf(db)
    BY DEF FactsOf
  <1>2. \A r \in Requests : req[r].stage \in Going => Honest(req[r])'
    <2> SUFFICES ASSUME NEW r \in Requests, req[r].stage \in Going PROVE Honest(req[r])'
      OBVIOUS
    <2>1. PICK q : q = req[r]
      OBVIOUS
    <2>2. q = req[r]'
      BY <2>1
    <2>3. Honest(q)'
      BY <2>1, HonestStays, GoingIs DEF ToldInv
    <2> QED BY <2>2, <2>3
  <1> QED BY <1>1, <1>2 DEF ToldInv

LEMMA PublishTold ==
  ASSUME ToldInv, NEW r \in Requests, Publish(r)
  PROVE  ToldInv'
  <1>1. PICK q : q = req[r]
    OBVIOUS
  <1>2. /\ q \in PlanRow /\ Honest(q) /\ q.stage = "telling" /\ UNCHANGED <<db, facts, screen>>
    BY <1>1, GoingIs DEF ToldInv, Publish, Going
  <1>3. q.plan \in Seq(Tellable) /\ q.plan # <<>> /\ Head(q.plan) \in facts
    BY <1>2 DEF Honest
  <1>4. PICK p : p = Tail(q.plan)
    OBVIOUS
  <1>5. p \in Seq(Tellable) /\ p \in Seq(Steps)
    BY <1>2, <1>3, <1>4 DEF PlanRow
  <1>6. PICK row : row = Finished([q EXCEPT !.plan = p, !.stage = "working"])
    OBVIOUS
  <1>7. req' = [req EXCEPT ![r] = row]
    BY <1>1, <1>4, <1>6 DEF Publish
  <1>8. /\ row \in RequestRow
        /\ row.stage \in Going => row.stage = "working" /\ row.plan = p /\ p # <<>>
    BY <1>2, <1>5, <1>6, FinishedIs
  <1>9. row.stage \in Going => Honest(row)'
    BY <1>2, <1>5, <1>8 DEF Honest, Tellable
  <1>10. stream' \in Seq(facts')
    BY <1>1, <1>2, <1>3 DEF Publish, ToldInv
  <1> QED BY <1>2, <1>7, <1>8, <1>9, <1>10, RowTold DEF ToldInv

LEMMA DieTold ==
  ASSUME ToldInv, NEW r \in Requests, Die(r)
  PROVE  ToldInv'
  <1>1. Done \in RequestRow /\ Done.stage \notin Going
    BY DEF RequestRow, Done, Going
  <1> QED BY <1>1, RowTold DEF Die, ToldInv

LEMMA StepTold == ToldInv /\ [Next]_vars => ToldInv'
  <1> SUFFICES ASSUME ToldInv, [Next]_vars PROVE ToldInv'
    OBVIOUS
  <1>1. CASE \E r \in Requests, h \in Handlers : Begin(r, h)
    BY <1>1, BeginTold
  <1>2. CASE \E r \in Requests : Commit(r) \/ Build(r) \/ Publish(r) \/ Die(r)
    BY <1>2, CommitTold, BuildTold, PublishTold, DieTold
  <1>3. CASE \E c \in Screens : Hear(c) \/ Skip(c) \/ Poll(c)
    BY <1>3, ScreenTold DEF Hear, Skip, Poll
  <1>4. CASE UNCHANGED vars
    BY <1>4, ScreenTold DEF vars
  <1> QED BY <1>1, <1>2, <1>3, <1>4 DEF Next

LEMMA InitTold == Init => ToldInv
  <1> SUFFICES ASSUME Init PROVE ToldInv
    OBVIOUS
  <1>1. db \in Row
    <2>1. PICK s \in {"ausente", "recibida", "abierta"} :
            db = [status |-> s, sale |-> FALSE, kitchen |-> [i \in Items |-> "pendiente"],
                  session |-> "active", table |-> "ocupada"]
      BY DEF Init
    <2> QED BY <2>1 DEF Row, Statuses, Terminal, Kitchen
  <1>2. facts \subseteq Facts /\ FactsOf(db) \subseteq facts
    BY <1>1, FactsTyped DEF Init
  <1>3. req \in [Requests -> RequestRow] /\ \A r \in Requests : req[r].stage \notin Going
    BY DEF Init, RequestRow, Going
  <1>4. stream \in Seq(facts)
    BY DEF Init
  <1> QED BY <1>1, <1>2, <1>3, <1>4 DEF ToldInv

\* Whatever requests overlap over whatever items, wherever their processes die and whichever
\* publications fail, an event says what some committed row said (core/events.py: an event is
\* built from the row as it is read after the commit).
THEOREM ToldIsTrue == Spec => []AnnouncedIsCommitted
  <1>1. ToldInv => AnnouncedIsCommitted
    BY DEF ToldInv, AnnouncedIsCommitted
  <1> QED BY <1>1, InitTold, StepTold, PTL DEF Spec

\* The row and what was true of it, the requests and the events keep their types.
THEOREM FeedTypeCorrect == Spec => []TypeOK
  <1>1. ToldInv => TypeOK
    <2> SUFFICES ASSUME ToldInv PROVE TypeOK
      OBVIOUS
    <2>1. \A r \in Requests : req[r].stage \in {"new", "working", "telling", "done"}
      BY DEF ToldInv, RequestRow, PlanRow, Done, Going
    <2>2. \A k \in 1 .. Len(stream) : stream[k] \in Facts
      BY DEF ToldInv
    <2> QED BY <2>1, <2>2, FactsNamed DEF ToldInv, TypeOK
  <1> QED BY <1>1, InitTold, StepTold, PTL DEF Spec

-----------------------------------------------------------------------------
(* Screens. *)

Orders == {<<"none">>} \cup {<<s, b>> : s \in Statuses, b \in BOOLEAN}
Pages  == [order : Orders, kitchen : [Items -> Kitchen \cup {"none"}]]
Etags  == {<<>>} \cup {Etag(p) : p \in Pages}

ScreenRow == [shown : Pages, cached : Pages, etag : Etags, version : [Items -> Nat], heard : Nat]

\* What a page says of the items was so.
WasTrue(page) ==
  page.order # <<"none">> => \A i \in Items : <<"item", i, page.kitchen[i]>> \in facts

\* The body that a browser keeps is the one that its ETag names.
ShownInv ==
  /\ screen \in [Screens -> ScreenRow]
  /\ \A c \in Screens :
       /\ WasTrue(screen[c].shown) /\ WasTrue(screen[c].cached)
       /\ screen[c].etag # <<>> => screen[c].etag = Etag(screen[c].cached)

LEMMA BlankIs == \A c \in Screens : Blank(c) \in ScreenRow /\ WasTrue(Blank(c).shown)
  <1> SUFFICES ASSUME NEW c \in Screens
               PROVE  Blank(c) \in ScreenRow /\ WasTrue(Blank(c).shown)
    OBVIOUS
  <1>1. [order |-> <<"none">>, kitchen |-> [i \in Items |-> "none"]] \in Pages
    BY DEF Pages, Orders
  <1>2. <<>> \in Etags
    BY DEF Etags
  <1> QED BY <1>1, <1>2 DEF Blank, ScreenRow, WasTrue

LEMMA PageIs ==
  ASSUME ToldInv, NEW c \in Screens
  PROVE  /\ Page(c) \in Pages /\ WasTrue(Page(c))
         /\ Etag(Page(c)) \in Etags /\ Etag(Page(c)) # <<>>
  <1>1. Page(c) \in Pages /\ WasTrue(Page(c))
    <2>1. CASE Listed(c)
      <3>1. Page(c) = [order |-> <<db.status, db.sale>>, kitchen |-> db.kitchen]
        BY <2>1 DEF Page
      <3>2. <<db.status, db.sale>> \in Orders /\ db.kitchen \in [Items -> Kitchen \cup {"none"}]
        BY DEF ToldInv, Row, Orders
      <3>3. \A i \in Items : <<"item", i, db.kitchen[i]>> \in facts
        BY FactsAre DEF ToldInv
      <3> QED BY <3>1, <3>2, <3>3 DEF Pages, WasTrue
    <2>2. CASE ~Listed(c)
      BY <2>2, BlankIs DEF Page, ScreenRow
    <2> QED BY <2>1, <2>2
  <1>2. Etag(Page(c)) \in Etags
    BY <1>1 DEF Etags
  <1>3. Etag(Page(c)) # <<>>
    BY DEF Etag
  <1> QED BY <1>1, <1>2, <1>3

\* A browser sent back to what it keeps has what it would have been sent.
LEMMA PollShows ==
  ASSUME ToldInv, ShownInv, NEW c \in Screens, Poll(c)
  PROVE  /\ screen' = [screen EXCEPT ![c] =
              [screen[c] EXCEPT !.shown = Page(c), !.cached = Page(c), !.etag = Etag(Page(c))]]
         /\ screen'[c].shown = Page(c)
  <1> DEFINE s == screen[c]
             body == IF s.etag = Etag(Page(c)) THEN s.cached ELSE Page(c)
  <1>1. s \in ScreenRow
    BY DEF ShownInv
  <1>2. body = Page(c)
    <2>1. CASE s.etag = Etag(Page(c))
      <3>1. Etag(s.cached) = Etag(Page(c)) /\ s.cached \in Pages /\ Page(c) \in Pages
        BY <1>1, <2>1, PageIs DEF ShownInv, ScreenRow
      <3>2. s.cached.order = Page(c).order /\ s.cached.kitchen = Page(c).kitchen
        BY <3>1 DEF Etag
      <3> QED BY <2>1, <3>1, <3>2 DEF Pages
    <2> QED BY <2>1
  <1>3. screen' = [screen EXCEPT ![c] = [s EXCEPT !.shown = body, !.cached = body,
                                                  !.etag = Etag(Page(c))]]
    BY DEF Poll
  <1> HIDE DEF body
  <1>4. screen'[c].shown = body
    BY <1>1, <1>3 DEF ShownInv, ScreenRow
  <1> QED BY <1>2, <1>3, <1>4

\* One screen changes.
LEMMA RowShown ==
  ASSUME ShownInv, facts \subseteq facts', NEW c \in Screens, NEW s \in ScreenRow,
         screen' = [screen EXCEPT ![c] = s], WasTrue(s.shown)', WasTrue(s.cached)',
         s.etag # <<>> => s.etag = Etag(s.cached)
  PROVE  ShownInv'
  <1>1. screen' \in [Screens -> ScreenRow]
    BY DEF ShownInv
  <1>2. ASSUME NEW b \in Screens
        PROVE  /\ WasTrue(screen[b].shown)' /\ WasTrue(screen[b].cached)'
               /\ screen'[b].etag # <<>> => screen'[b].etag = Etag(screen'[b].cached)
    <2>1. CASE b = c
      BY <2>1 DEF ShownInv, WasTrue
    <2>2. CASE b # c
      BY <2>2 DEF ShownInv, WasTrue
    <2> QED BY <2>1, <2>2
  <1> QED BY <1>1, <1>2 DEF ShownInv, Etag, ScreenRow, Pages, Orders, Etags

LEMMA ShownStays ==
  ASSUME ShownInv, facts \subseteq facts', UNCHANGED screen
  PROVE  ShownInv'
  BY DEF ShownInv, WasTrue, Etag, ScreenRow, Pages, Orders, Etags

LEMMA HearShown ==
  ASSUME ToldInv, ShownInv, NEW c \in Screens, Hear(c)
  PROVE  ShownInv'
  <1> DEFINE s == screen[c]
             v == s.heard + 1
             e == stream[v]
             patched == [s EXCEPT !.heard = v, !.version[e[2]] = v, !.shown.kitchen[e[2]] = e[3]]
             heard == [s EXCEPT !.heard = v]
  <1>1. s \in ScreenRow /\ WasTrue(s.shown) /\ WasTrue(s.cached) /\ facts' = facts
        /\ (s.etag # <<>> => s.etag = Etag(s.cached))
    BY DEF ShownInv, Hear
  <1>2. v \in Nat /\ v \in 1 .. Len(stream) /\ e \in Facts /\ e \in facts
    BY <1>1 DEF Hear, ScreenRow, ToldInv
  <1>3. CASE screen' = [screen EXCEPT ![c] = heard]
    <2>1. heard \in ScreenRow /\ heard.shown = s.shown /\ heard.cached = s.cached
          /\ heard.etag = s.etag
      BY <1>1, <1>2 DEF ScreenRow
    <2> HIDE DEF heard
    <2> QED BY <1>1, <1>3, <2>1, RowShown DEF WasTrue
  <1>4. CASE e[1] = "item" /\ screen' = [screen EXCEPT ![c] = patched]
    <2>1. PICK i \in Items, k \in Kitchen : e = <<"item", i, k>>
      BY <1>2, <1>4 DEF Facts, BillChanged, OrderCreated, OrderConfirmed, OrderCancelled,
                        PaymentCompleted, SessionClosed
    <2>2. PICK page : page = [s.shown EXCEPT !.kitchen[i] = k]
      OBVIOUS
    <2>3. page \in Pages /\ page.order = s.shown.order
          /\ page.kitchen = [s.shown.kitchen EXCEPT ![i] = k]
      BY <1>1, <2>2 DEF ScreenRow, Pages
    <2>4. PICK row : row = [s EXCEPT !.heard = v, !.version[i] = v, !.shown = page]
      OBVIOUS
    <2>5. row \in ScreenRow /\ row.shown = page /\ row.cached = s.cached /\ row.etag = s.etag
      BY <1>1, <1>2, <2>3, <2>4 DEF ScreenRow
    <2>6. WasTrue(page)
      <3>1. <<"item", i, k>> \in facts
        BY <1>2, <2>1
      <3>2. \A j \in Items : page.kitchen[j] = IF j = i THEN k ELSE s.shown.kitchen[j]
        BY <1>1, <2>3 DEF ScreenRow, Pages
      <3>3. ASSUME page.order # <<"none">>, NEW j \in Items
            PROVE  <<"item", j, page.kitchen[j]>> \in facts
        <4>1. s.shown.order # <<"none">>
          BY <2>3, <3>3
        <4>2. <<"item", j, s.shown.kitchen[j]>> \in facts
          BY <1>1, <4>1 DEF WasTrue
        <4>3. CASE j = i
          BY <3>1, <3>2, <4>3
        <4>4. CASE j # i
          BY <3>2, <4>2, <4>4
        <4> QED BY <4>3, <4>4
      <3> QED BY <3>3 DEF WasTrue
    <2>7. patched = row
      BY <1>1, <2>1, <2>2, <2>4 DEF ScreenRow
    <2> HIDE DEF patched
    <2> QED BY <1>1, <1>4, <2>5, <2>6, <2>7, RowShown DEF WasTrue
  <1> QED BY <1>3, <1>4 DEF Hear

LEMMA SkipShown ==
  ASSUME ToldInv, ShownInv, NEW c \in Screens, Skip(c)
  PROVE  ShownInv'
  <1>1. PICK s : s = [screen[c] EXCEPT !.heard = Len(stream)]
    OBVIOUS
  <1>2. screen[c] \in ScreenRow /\ Len(stream) \in Nat /\ facts' = facts
    BY DEF ShownInv, ToldInv, Skip
  <1>3. s \in ScreenRow /\ s.shown = screen[c].shown /\ s.cached = screen[c].cached
        /\ s.etag = screen[c].etag
    BY <1>1, <1>2 DEF ScreenRow
  <1>4. screen' = [screen EXCEPT ![c] = s]
    BY <1>1 DEF Skip
  <1> QED BY <1>2, <1>3, <1>4, RowShown DEF ShownInv, WasTrue

LEMMA PollShown ==
  ASSUME ToldInv, ShownInv, NEW c \in Screens, Poll(c)
  PROVE  ShownInv'
  <1>1. PICK page : page = Page(c)
    OBVIOUS
  <1>2. /\ page \in Pages /\ WasTrue(page) /\ Etag(page) \in Etags
    BY <1>1, PageIs
  <1>3. PICK s : s = [screen[c] EXCEPT !.shown = page, !.cached = page, !.etag = Etag(page)]
    OBVIOUS
  <1>4. screen[c] \in ScreenRow /\ facts' = facts
    BY DEF ShownInv, Poll
  <1>5. s \in ScreenRow /\ s.shown = page /\ s.cached = page /\ s.etag = Etag(page)
    BY <1>2, <1>3, <1>4 DEF ScreenRow
  <1>6. screen' = [screen EXCEPT ![c] = s]
    BY <1>1, <1>3, PollShows
  <1> QED BY <1>2, <1>4, <1>5, <1>6, RowShown DEF WasTrue

LEMMA StepShown == ToldInv /\ ShownInv /\ [Next]_vars => ShownInv'
  <1> SUFFICES ASSUME ToldInv, ShownInv, [Next]_vars PROVE ShownInv'
    OBVIOUS
  <1>1. CASE \E c \in Screens : Hear(c) \/ Skip(c) \/ Poll(c)
    BY <1>1, HearShown, SkipShown, PollShown
  <1>2. CASE UNCHANGED screen /\ facts \subseteq facts'
    BY <1>2, ShownStays
  <1>3. (\E r \in Requests : (\E h \in Handlers : Begin(r, h)) \/ Commit(r) \/ Build(r)
                               \/ Publish(r) \/ Die(r)) \/ UNCHANGED vars
        => UNCHANGED screen /\ facts \subseteq facts'
    BY DEF Begin, Commit, Build, Publish, Die, vars
  <1> QED BY <1>1, <1>2, <1>3 DEF Next

LEMMA InitShown == Init => ShownInv
  BY BlankIs DEF Init, ShownInv, Blank

\* A screen that hears events late, or that a reconnection makes skip some, or that a 304 sends
\* back to an earlier body, still shows of each item a state it has been in.
THEOREM ShownHasBeen == Spec => []ShownWasTrue
  <1>1. ShownInv => ShownWasTrue
    BY DEF ShownInv, ShownWasTrue, WasTrue
  <1> QED BY <1>1, InitTold, StepTold, InitShown, StepShown, PTL DEF Spec

\* Whatever events and polls came before, a poll ends with the page of the rows: the ETag of
\* a body that the browser keeps never stands for another (core/http_cache.py: weak_etag).
THEOREM PollTellsTruth == Spec => NoLying304
  <1>1. ToldInv /\ ShownInv /\ [Next]_vars =>
          [\A c \in Screens : Poll(c) => screen'[c].shown = Page(c)]_vars
    BY PollShows
  <1> QED BY <1>1, InitTold, StepTold, InitShown, StepShown, PTL DEF Spec, NoLying304

=============================================================================
