------------------------- MODULE TableSessionsProofs -------------------------
(***************************************************************************)
(* Proofs about table sessions, for any tables, diners, orders and         *)
(* requests in flight.                                                     *)
(***************************************************************************)
EXTENDS TableSessions, TLAPS

-----------------------------------------------------------------------------
(* TypeOK, table by table of the database. *)

SessionsOK == session \in [Sessions -> SessionRow] /\ \A s \in Sessions : SessionLinked(s)
DinersOK   == diner \in [Diners -> DinerRow] /\ \A d \in Diners : DinerLinked(d)
OrdersOK   == order \in [Orders -> OrderRow] /\ \A o \in Orders : OrderLinked(o)
TablesOK   == table \in [Tables -> TableStatuses]
RequestsOK == req \in [Requests -> Request] /\ \A r \in Requests : RequestLinked(r)

\* A session that was opened stays opened, closed as it may be.
Stays == \A s : Opened(s) => Opened(s)'

LEMMA Parts == TypeOK <=> SessionsOK /\ DinersOK /\ OrdersOK /\ TablesOK /\ RequestsOK
BY DEF TypeOK, Typed, Linked, SessionsOK, DinersOK, OrdersOK, TablesOK, RequestsOK

LEMMA PartsNext == TypeOK' <=> SessionsOK' /\ DinersOK' /\ OrdersOK' /\ TablesOK' /\ RequestsOK'
BY DEF TypeOK, Typed, Linked, SessionsOK, DinersOK, OrdersOK, TablesOK, RequestsOK

LEMMA InitType == Init => TypeOK
<1> SUFFICES ASSUME Init PROVE TypeOK
  OBVIOUS
<1> USE SessionsAssumption DEF Init
<1>1. Typed
  BY DEF Typed, SessionRow, DinerRow, OrderRow, OrderStatuses, Request, Idle, TableStatuses
<1>2. Linked
  BY DEF Linked, SessionLinked, DinerLinked, OrderLinked, RequestLinked, Idle
<1> QED
  BY <1>1, <1>2 DEF TypeOK

(* What a step leaves alone stays well linked.                               *)
LEMMA Unchanged ==
  ASSUME TypeOK
  PROVE  /\ UNCHANGED session => SessionsOK' /\ Stays
         /\ UNCHANGED diner /\ Stays => DinersOK'
         /\ UNCHANGED order /\ Stays => OrdersOK'
         /\ UNCHANGED table => TablesOK'
         /\ UNCHANGED req /\ Stays => RequestsOK'
<1> USE Parts
<1>1. UNCHANGED session => SessionsOK' /\ Stays
  BY DEF SessionsOK, SessionLinked, Stays, Opened
<1>2. UNCHANGED diner /\ Stays => DinersOK'
  BY DEF DinersOK, DinerLinked, Stays
<1>3. UNCHANGED order /\ Stays => OrdersOK'
  BY DEF OrdersOK, OrderLinked, Stays
<1>4. UNCHANGED table => TablesOK'
  BY DEF TablesOK
<1>5. UNCHANGED req /\ Stays => RequestsOK'
  BY DEF RequestsOK, RequestLinked, Stays
<1> QED
  BY <1>1, <1>2, <1>3, <1>4, <1>5

-----------------------------------------------------------------------------
(* What each write operator makes of the rows it writes. *)

LEMMA SeatedKeeps ==
  ASSUME TypeOK, NEW t \in Tables, NEW read \in Sessions \cup {None}, NEW s \in Sessions,
         read # None => Opened(read), Seated(t, read, s)
  PROVE  SessionsOK' /\ Stays /\ Opened(s)'
<1> USE Parts, SessionsAssumption DEF SessionsOK, Stays, Opened, SessionLinked, SessionRow
<1>1. CASE read # None /\ s = read /\ UNCHANGED session
  BY <1>1
<1>2. CASE /\ read = None /\ session[s].status = "ausente"
           /\ session' = [session EXCEPT ![s] = [status |-> "active", table |-> t]]
  BY <1>2
<1> QED
  BY <1>1, <1>2 DEF Seated

LEMMA ShutKeeps ==
  ASSUME TypeOK, NEW S \in SUBSET Sessions, NEW D \in SUBSET Diners, Shut(S, D),
         \A s \in S : Opened(s), \A d \in D : diner[d].status # "ausente"
  PROVE  SessionsOK' /\ Stays /\ DinersOK'
<1> USE Parts DEF SessionsOK, DinersOK, Stays, Opened, SessionLinked, SessionRow
<1>1. session' \in [Sessions -> SessionRow]
  BY DEF Shut, CloseDiners
<1>2. \A x \in Sessions : /\ session'[x].table = session[x].table
                          /\ session'[x].status = "ausente" <=> session[x].status = "ausente"
  BY DEF Shut, CloseDiners
<1>3. \A x : Opened(x) <=> Opened(x)'
  BY <1>2
<1>4. diner' \in [Diners -> DinerRow]
  BY DEF Shut, CloseDiners, DinerRow
<1>5. \A d \in Diners : /\ diner'[d].ses = diner[d].ses
                        /\ diner'[d].status = "ausente" <=> diner[d].status = "ausente"
  BY DEF Shut, CloseDiners, DinerRow, OpenIn
<1>6. \A d \in Diners : DinerLinked(d)'
  BY <1>3, <1>5 DEF DinerLinked
<1> QED
  BY <1>1, <1>2, <1>3, <1>4, <1>6

LEMMA InsertedKeeps ==
  ASSUME TypeOK, Stays, NEW o \in Orders, NEW status \in OrderStatuses \ {"ausente"},
         NEW q \in Request, q.table # None, NEW s \in Sessions, Opened(s)',
         NEW pooled \in BOOLEAN, Inserted(o, status, q, s, pooled)
  PROVE  OrdersOK'
<1> USE Parts DEF Inserted, OrdersOK
<1>1. order' \in [Orders -> OrderRow]
  BY DEF OrderRow, Request
<1>2. \A x \in Orders : OrderLinked(x)'
  BY DEF OrderLinked, OrderRow, Stays
<1> QED
  BY <1>1, <1>2

(* Orders that are rewritten keep their links.                               *)
LEMMA RewrittenKeeps ==
  ASSUME TypeOK, Stays, order' \in [Orders -> OrderRow],
         \A o \in Orders : /\ order'[o].ses = order[o].ses
                           /\ order'[o].status = "ausente" <=> order[o].status = "ausente"
                           /\ order'[o].table = None => order[o].table = None
  PROVE  OrdersOK'
BY Parts DEF OrdersOK, OrderLinked, Stays

LEMMA StatusKeeps ==
  ASSUME TypeOK, UNCHANGED session, NEW o \in Orders, order[o].status # "ausente",
         NEW s \in OrderStatuses \ {"ausente"}, NEW cooking \in BOOLEAN,
         order' = [order EXCEPT ![o].status = s, ![o].cooking = cooking]
  PROVE  OrdersOK'
<1>1. order' \in [Orders -> OrderRow]
  BY Parts DEF OrdersOK, OrderRow
<1>2. \A x \in Orders : /\ order'[x].ses = order[x].ses
                         /\ order'[x].status = "ausente" <=> order[x].status = "ausente"
                         /\ order'[x].table = order[x].table
  BY Parts DEF OrdersOK, OrderRow
<1> QED
  BY <1>1, <1>2, Unchanged, RewrittenKeeps

LEMMA CancelledKeeps ==
  ASSUME TypeOK, UNCHANGED session, NEW o \in Orders, order[o].status # "ausente",
         Cancelled(o)
  PROVE  OrdersOK'
BY StatusKeeps DEF Cancelled, OrderStatuses

LEMMA AskKeeps ==
  ASSUME TypeOK, Stays, NEW r \in Requests, NEW q \in Request, Ask(r, q),
         q.step \in {"open", "order", "submit"} => q.table # None,
         q.step \in {"submit", "release"} => q.ses # None,
         q.ses # None => Opened(q.ses)
  PROVE  RequestsOK'
BY Parts DEF Ask, RequestsOK, RequestLinked, Stays

LEMMA DoneKeeps ==
  ASSUME TypeOK, Stays, NEW r \in Requests, Done(r)
  PROVE  RequestsOK'
BY Parts, SessionsAssumption DEF Done, RequestsOK, RequestLinked, Stays, Idle, Request

LEMMA TableKeeps ==
  ASSUME TypeOK
  PROVE  /\ \A t \in Tables, s \in TableStatuses : MarkTable(t, s) => TablesOK'
         /\ \A t \in Tables, busy \in BOOLEAN : Occupy(t, busy) => TablesOK'
BY Parts DEF MarkTable, Occupy, TablesOK, TableStatuses

(* The sessions of a table, and who is in them.                              *)
LEMMA ReadsOK ==
  ASSUME TypeOK
  PROVE  /\ \A t : Active(t) \subseteq Sessions /\ \A s \in Active(t) : Opened(s)
         /\ \A t \in Tables : \A s \in Sessions \cup {None} :
              Found(t, s) => s = None \/ Opened(s)
         /\ \A s : OpenIn(s) \subseteq Diners /\ \A d \in OpenIn(s) : diner[d].status # "ausente"
         /\ \A s \in Sessions : session[s].status = "active" => session[s].table \in Tables
         /\ \A d \in Diners : diner[d].status = "open" =>
              diner[d].ses \in Sessions /\ Opened(diner[d].ses)
         /\ \A s \in Sessions : Opened(s) => session[s].table \in Tables
BY Parts, SessionsAssumption DEF SessionsOK, SessionLinked, SessionRow, DinersOK, DinerLinked, DinerRow,
     Active, Found, OpenIn, Opened

-----------------------------------------------------------------------------
(* Every step keeps the types and the links, family by family of Next. *)

LEMMA IdleIsRequest == Idle \in Request
BY DEF Idle, Request

LEMMA ComeType ==
  ASSUME TypeOK, NEW r \in Requests, Come(r)
  PROVE  TypeOK'
<1> USE Parts, PartsNext, Unchanged, ReadsOK, SessionsAssumption
<1>1. ASSUME NEW t \in Tables, BeginOpen(r, t) PROVE TypeOK'
  <2>1. PICK s \in Sessions \cup {None} :
          /\ Found(t, s)
          /\ Ask(r, [Idle EXCEPT !.step = "open", !.ses = s, !.table = t,
                                 !.busy = (table[t] = "ocupada")])
    BY <1>1 DEF BeginOpen
  <2>2. RequestsOK'
    BY <2>1, <1>1, IdleIsRequest, AskKeeps DEF BeginOpen, Idle, Request
  <2> QED
    BY <1>1, <2>2 DEF BeginOpen
<1>2. ASSUME NEW d \in Diners, NEW s \in Sessions, CommitOpen(r, d, s) PROVE TypeOK'
  <2>1. /\ req[r].table \in Tables /\ req[r].ses \in Sessions \cup {None}
        /\ req[r].ses # None => Opened(req[r].ses)
        /\ req[r].busy \in BOOLEAN
    BY <1>2 DEF CommitOpen, RequestsOK, RequestLinked, Request
  <2>2. SessionsOK' /\ Stays /\ Opened(s)'
    BY <1>2, <2>1, SeatedKeeps DEF CommitOpen
  <2>3. DinersOK'
    BY <1>2, <2>2 DEF CommitOpen, DinersOK, DinerLinked, DinerRow, Stays
  <2>4. TablesOK' /\ RequestsOK'
    BY <1>2, <2>1, <2>2, TableKeeps, DoneKeeps DEF CommitOpen
  <2> QED
    BY <1>2, <2>2, <2>3, <2>4 DEF CommitOpen
<1>3. ASSUME NEW d \in Diners, BeginSubmit(r, d) PROVE TypeOK'
  <2>1. diner[d].ses \in Sessions /\ session[diner[d].ses].table \in Tables
    BY <1>3 DEF BeginSubmit, InContext
  <2>2. RequestsOK'
    BY <2>1, <1>3, IdleIsRequest, AskKeeps DEF BeginSubmit, InContext, Idle, Request, Opened
  <2> QED
    BY <1>3, <2>2 DEF BeginSubmit
<1>4. ASSUME NEW o \in Orders, CommitSubmit(r, o) PROVE TypeOK'
  <2>1. Stays /\ SessionsOK'
    BY <1>4 DEF CommitSubmit
  <2>2. /\ req[r] \in Request /\ req[r].table # None /\ req[r].ses \in Sessions
        /\ Opened(req[r].ses)
    BY <1>4 DEF CommitSubmit, RequestsOK, RequestLinked, Request
  <2>3. OrdersOK'
    BY <1>4, <2>1, <2>2, InsertedKeeps DEF CommitSubmit, OrderStatuses, Stays
  <2> QED
    BY <1>4, <2>1, <2>3, DoneKeeps DEF CommitSubmit
<1>5. ASSUME NEW t \in Tables, NEW d \in Diners \cup {None}, NEW qr \in BOOLEAN,
             BeginOrder(r, t, d, qr)
      PROVE  TypeOK'
  <2>1. PICK s \in Sessions \cup {None} :
          /\ s = None \/ Opened(s)
          /\ Ask(r, [Idle EXCEPT !.step = "order", !.ses = s, !.table = t, !.diner = d,
                                 !.qr = qr, !.busy = (s # None \/ table[t] = "ocupada")])
    BY <1>5 DEF BeginOrder
  <2> DEFINE q == [Idle EXCEPT !.step = "order", !.ses = s, !.table = t, !.diner = d,
                               !.qr = qr, !.busy = (s # None \/ table[t] = "ocupada")]
  <2>2. q \in Request /\ q.step = "order" /\ q.table = t /\ q.ses = s
    BY <1>5, <2>1 DEF Idle, Request
  <2>3. Stays
    BY <1>5 DEF BeginOrder
  <2>4. RequestsOK'
    BY <2>1, <2>2, <2>3, AskKeeps
  <2> QED
    BY <1>5, <2>4 DEF BeginOrder
<1>6. ASSUME NEW o \in Orders, NEW s \in Sessions, NEW hold \in BOOLEAN,
             CommitOrder(r, o, s, hold)
      PROVE  TypeOK'
  <2>1. /\ req[r] \in Request /\ req[r].table \in Tables
        /\ req[r].ses \in Sessions \cup {None} /\ req[r].busy \in BOOLEAN
        /\ req[r].ses # None => Opened(req[r].ses)
    BY <1>6 DEF CommitOrder, RequestsOK, RequestLinked, Request
  <2>2. SessionsOK' /\ Stays /\ Opened(s)'
    BY <1>6, <2>1, SeatedKeeps DEF CommitOrder
  <2>3. OrdersOK'
    BY <1>6, <2>1, <2>2, InsertedKeeps DEF CommitOrder, OrderStatuses
  <2>4. TablesOK' /\ RequestsOK'
    BY <1>6, <2>1, <2>2, TableKeeps, DoneKeeps DEF CommitOrder
  <2> QED
    BY <1>6, <2>2, <2>3, <2>4 DEF CommitOrder
<1>7. ASSUME NEW o \in Orders, CancelMyOrder(r, o) PROVE TypeOK'
  <2>1. Stays /\ SessionsOK'
    BY <1>7 DEF CancelMyOrder
  <2>2. OrdersOK'
    BY <1>7, CancelledKeeps DEF CancelMyOrder
  <2>3. order[o].diner \in Diners
    BY <1>7 DEF CancelMyOrder, OrdersOK, OrderRow
  <2> DEFINE q == [Idle EXCEPT !.step = "release", !.ses = diner[order[o].diner].ses]
  <2>4. diner[order[o].diner].ses \in Sessions /\ Opened(diner[order[o].diner].ses)
    BY <1>7, <2>3 DEF CancelMyOrder, InContext
  <2>5. q \in Request /\ q.step = "release" /\ q.ses = diner[order[o].diner].ses
    BY <2>4 DEF Idle, Request
  <2>6. Ask(r, q)
    BY <1>7 DEF CancelMyOrder
  <2>7. RequestsOK'
    BY <2>1, <2>4, <2>5, <2>6, AskKeeps
  <2> QED
    BY <1>7, <2>1, <2>2, <2>7 DEF CancelMyOrder
<1>8. ASSUME CommitRelease(r) PROVE TypeOK'
  <2>1. req[r].ses \in Sessions
    BY <1>8 DEF CommitRelease, RequestsOK, RequestLinked, Request
  <2>2. SessionsOK' /\ Stays /\ DinersOK' /\ TablesOK'
    <3>1. CASE Shut({}, {}) /\ UNCHANGED table
      BY <3>1, ShutKeeps
    <3>2. CASE /\ session[req[r].ses].status = "active"
               /\ Shut(Active(session[req[r].ses].table), {})
               /\ MarkTable(session[req[r].ses].table, "libre")
      BY <3>2, <2>1, ShutKeeps, TableKeeps DEF TableStatuses
    <3> QED
      BY <1>8, <3>1, <3>2 DEF CommitRelease, ReleaseIfEmpty, Empty
  <2> QED
    BY <1>8, <2>2, DoneKeeps DEF CommitRelease
<1>9. ASSUME GiveUp(r) PROVE TypeOK'
  BY <1>9, DoneKeeps DEF GiveUp
<1> QED
  BY <1>1, <1>2, <1>3, <1>4, <1>5, <1>6, <1>7, <1>8, <1>9 DEF Come

LEMMA GoOnType ==
  ASSUME TypeOK, NEW o \in Orders, GoOn(o)
  PROVE  TypeOK'
<1> USE Parts, PartsNext, Unchanged, SessionsAssumption
<1>1. ASSUME AddItem(o) \/ FinishCooking(o) PROVE TypeOK'
  <2>1. Stays /\ SessionsOK'
    BY <1>1 DEF AddItem, FinishCooking
  <2>2. PICK cooking \in BOOLEAN : order' = [order EXCEPT ![o].cooking = cooking]
    BY <1>1 DEF AddItem, FinishCooking
  <2>3. OrdersOK'
    BY <2>1, <2>2, RewrittenKeeps DEF OrdersOK, OrderRow
  <2> QED
    BY <1>1, <2>1, <2>3 DEF AddItem, FinishCooking
<1>2. ASSUME ChargeAndSend(o) \/ PayOrder(o) PROVE TypeOK'
  <2>1. Stays /\ SessionsOK'
    BY <1>2 DEF ChargeAndSend, PayOrder, SetStatus
  <2>2. OrdersOK'
    BY <1>2, <2>1, RewrittenKeeps
       DEF ChargeAndSend, PayOrder, SetStatus, OrdersOK, OrderRow, OrderStatuses
  <2> QED
    BY <1>2, <2>1, <2>2 DEF ChargeAndSend, PayOrder, SetStatus
<1>3. ASSUME CancelOrder(o) PROVE TypeOK'
  <2>1. OrdersOK'
    BY <1>3, CancelledKeeps DEF CancelOrder, Live
  <2> QED
    BY <1>3, <2>1 DEF CancelOrder
<1>4. ASSUME NEW t \in Tables, NEW s \in Sessions, ConsolidateTable(t, o, s) PROVE TypeOK'
  <2>1. PICK read \in Sessions \cup {None} :
          Found(t, read) /\ Seated(t, read, s) /\ Occupy(t, read # None)
    BY <1>4 DEF ConsolidateTable
  <2>2. SessionsOK' /\ Stays /\ Opened(s)'
    BY <2>1, ReadsOK, SeatedKeeps
  <2>3. TablesOK'
    BY <2>1, TableKeeps
  <2>4. CASE o \in Pooled(t) /\ order' = [order EXCEPT ![o].cooking = TRUE]
    <3>1. OrdersOK'
      BY <2>2, <2>4, RewrittenKeeps DEF OrdersOK, OrderRow
    <3> QED
      BY <1>4, <2>2, <2>3, <3>1 DEF ConsolidateTable
  <2>5. CASE Inserted(o, "abierta", [Idle EXCEPT !.table = t], s, TRUE)
    <3> DEFINE q == [Idle EXCEPT !.table = t]
    <3>1. q \in Request /\ q.table = t
      BY DEF Idle, Request
    <3>2. OrdersOK'
      BY <2>2, <2>5, <3>1, InsertedKeeps DEF OrderStatuses
    <3> QED
      BY <1>4, <2>2, <2>3, <3>2 DEF ConsolidateTable
  <2> QED
    BY <1>4, <2>4, <2>5 DEF ConsolidateTable
<1> QED
  BY <1>1, <1>2, <1>3, <1>4 DEF GoOn

(* Whoever closes does it by Shut, of the sessions of a table.               *)
LEMMA ClosesType ==
  ASSUME TypeOK, NEW S \in SUBSET Sessions, NEW D \in SUBSET Diners, Shut(S, D),
         \A s \in S : Opened(s), \A d \in D : diner[d].status # "ausente",
         UNCHANGED req, OrdersOK', TablesOK'
  PROVE  TypeOK'
BY PartsNext, Unchanged, ShutKeeps

LEMMA CloseType ==
  ASSUME TypeOK, Close
  PROVE  TypeOK'
<1> USE Parts, Unchanged, ReadsOK, TableKeeps, SessionsAssumption DEF TableStatuses
<1>1. ASSUME NEW d \in Diners, LeaveSession(d) PROVE TypeOK'
  <2> DEFINE s == diner[d].ses
  <2>1. s \in Sessions /\ session[s].table \in Tables /\ diner[d].status # "ausente"
    BY <1>1 DEF LeaveSession, AbandonExpired, InContext
  <2>2. CASE Shut({}, {d}) /\ UNCHANGED table
    <3>1. Stays
      BY <2>1, <2>2, ShutKeeps
    <3> QED
      BY <1>1, <2>1, <2>2, <3>1, ClosesType DEF LeaveSession, AbandonExpired
  <2>3. CASE Shut(Active(session[s].table), {d}) /\ MarkTable(session[s].table, "libre")
    <3>1. Stays
      BY <2>1, <2>3, ShutKeeps
    <3> QED
      BY <1>1, <2>1, <2>3, <3>1, ClosesType DEF LeaveSession, AbandonExpired
  <2> QED
    BY <1>1, <2>2, <2>3 DEF LeaveSession, AbandonExpired, ReleaseIfEmpty
<1>2. ASSUME NEW s \in Sessions, CloseAndFree(s), session[s].status = "active"
      PROVE  /\ OrdersOK' => TypeOK'
             /\ Stays
  BY <1>2, ShutKeeps, ClosesType DEF CloseAndFree
<1>3. ASSUME NEW s \in Sessions, CloseSession(s) PROVE TypeOK'
  <2>1. \A o \in Billable(s) : order[o].status # "ausente"
    BY DEF Billable, Live
  <2>2. OrdersOK'
    BY <1>2, <1>3, <2>1, RewrittenKeeps DEF CloseSession, OrdersOK, OrderRow, OrderStatuses
  <2> QED
    BY <1>2, <1>3, <2>2 DEF CloseSession
<1>4. ASSUME NEW s \in Sessions, ReleasePaidSession(s) PROVE TypeOK'
  BY <1>2, <1>4 DEF ReleasePaidSession
<1>5. ASSUME NEW s \in Sessions, Sweep(s) PROVE TypeOK'
  <2>1. CASE Shut({}, OpenIn(s)) /\ UNCHANGED table
    <3>1. Stays
      BY <2>1, ShutKeeps
    <3> QED
      BY <1>5, <2>1, <3>1, ClosesType DEF Sweep
  <2>2. CASE /\ Shut(Active(session[s].table), {})
             /\ \/ MarkTable(session[s].table, "libre")
                \/ UNCHANGED table
    <3>1. Stays
      BY <2>2, ShutKeeps
    <3> QED
      BY <1>5, <2>2, <3>1, ClosesType DEF Sweep
  <2> QED
    BY <1>5, <2>1, <2>2 DEF Sweep
<1>6. ASSUME NEW t \in Tables, ReleaseTable(t) PROVE TypeOK'
  <2>1. Stays
    BY <1>6, ShutKeeps DEF ReleaseTable
  <2> QED
    BY <1>6, <2>1, ClosesType DEF ReleaseTable
<1> QED
  BY <1>1, <1>3, <1>4, <1>5, <1>6 DEF Close

LEMMA StaffType ==
  ASSUME TypeOK, Staff
  PROVE  TypeOK'
<1> USE Parts, PartsNext, Unchanged, SessionsAssumption
<1>1. ASSUME NEW d \in Diners, NEW s \in Sessions, AddParticipant(d, s) PROVE TypeOK'
  <2>1. DinersOK'
    BY <1>1 DEF AddParticipant, DinersOK, DinerLinked, DinerRow, Opened
  <2> QED
    BY <1>1, <2>1 DEF AddParticipant
<1>2. ASSUME NEW t \in Tables, NEW m \in Marks, SetTableStatus(t, m) PROVE TypeOK'
  BY <1>2, TableKeeps DEF SetTableStatus
<1>3. ASSUME NEW o \in Orders, NEW t \in Tables, MoveOrder(o, t) PROVE TypeOK'
  <2>1. OrdersOK'
    BY <1>3, RewrittenKeeps DEF MoveOrder, Movable, OrdersOK, OrderRow
  <2>2. TablesOK'
    BY <1>3 DEF MoveOrder, Movable, TablesOK, TableStatuses
  <2> QED
    BY <1>3, <2>1, <2>2 DEF MoveOrder, Movable
<1> QED
  BY <1>1, <1>2, <1>3 DEF Staff

(* TypeOK: whatever overlaps, every order, diner and request that names a    *)
(* session names one that was opened.                                        *)
THEOREM RowsLinked == Spec => []TypeOK
<1>1. TypeOK /\ [Next]_vars => TypeOK'
  <2> SUFFICES ASSUME TypeOK, [Next]_vars PROVE TypeOK'
    OBVIOUS
  <2>1. CASE Next
    BY <2>1, ComeType, GoOnType, CloseType, StaffType DEF Next
  <2>2. CASE UNCHANGED vars
    BY <2>2, Unchanged, PartsNext DEF vars
  <2> QED
    BY <2>1, <2>2
<1> QED
  BY <1>1, InitType, PTL DEF Spec

-----------------------------------------------------------------------------
(* One active session per table. *)

LEMMA InitOne == Init => OneActivePerTable
BY DEF Init, OneActivePerTable

LEMMA SeatedOne ==
  ASSUME TypeOK, OneActivePerTable, NEW t \in Tables, NEW read, NEW s \in Sessions,
         Seated(t, read, s)
  PROVE  OneActivePerTable'
BY Parts DEF Seated, Active, OneActivePerTable, SessionsOK, SessionRow

LEMMA ShutOne ==
  ASSUME TypeOK, OneActivePerTable, NEW S, NEW D, Shut(S, D)
  PROVE  OneActivePerTable'
BY Parts DEF Shut, CloseDiners, OneActivePerTable, SessionsOK, SessionRow

LEMMA SameOne ==
  ASSUME OneActivePerTable, UNCHANGED session
  PROVE  OneActivePerTable'
BY DEF OneActivePerTable

LEMMA NextOne ==
  ASSUME TypeOK, OneActivePerTable, [Next]_vars
  PROVE  OneActivePerTable'
<1> USE SameOne
<1>1. ASSUME NEW r \in Requests, Come(r) PROVE OneActivePerTable'
  <2>1. ASSUME NEW d \in Diners, NEW s \in Sessions, CommitOpen(r, d, s)
        PROVE  OneActivePerTable'
    BY <2>1, Parts, SessionsAssumption, SeatedOne
       DEF CommitOpen, RequestsOK, RequestLinked, Request
  <2>2. ASSUME NEW o \in Orders, NEW s \in Sessions, NEW hold \in BOOLEAN,
               CommitOrder(r, o, s, hold)
        PROVE  OneActivePerTable'
    BY <2>2, Parts, SessionsAssumption, SeatedOne
       DEF CommitOrder, RequestsOK, RequestLinked, Request
  <2>3. ASSUME CommitRelease(r) PROVE OneActivePerTable'
    BY <2>3, ShutOne DEF CommitRelease, ReleaseIfEmpty
  <2> QED
    BY <1>1, <2>1, <2>2, <2>3
       DEF Come, BeginOpen, BeginSubmit, CommitSubmit, BeginOrder, CancelMyOrder, GiveUp
<1>2. ASSUME NEW o \in Orders, GoOn(o) PROVE OneActivePerTable'
  <2>1. ASSUME NEW t \in Tables, NEW s \in Sessions, ConsolidateTable(t, o, s)
        PROVE  OneActivePerTable'
    BY <2>1, SeatedOne DEF ConsolidateTable
  <2> QED
    BY <1>2, <2>1
       DEF GoOn, AddItem, FinishCooking, ChargeAndSend, PayOrder, CancelOrder, SetStatus
<1>3. ASSUME Close PROVE OneActivePerTable'
  BY <1>3, ShutOne DEF Close, LeaveSession, AbandonExpired, ReleaseIfEmpty, CloseSession,
     ReleasePaidSession, CloseAndFree, Sweep, ReleaseTable
<1>4. ASSUME Staff PROVE OneActivePerTable'
  BY <1>4 DEF Staff, AddParticipant, SetTableStatus, MoveOrder, Movable
<1>5. ASSUME UNCHANGED vars PROVE OneActivePerTable'
  BY <1>5 DEF vars
<1> QED
  BY <1>1, <1>2, <1>3, <1>4, <1>5 DEF Next

(* OneActivePerTable: two scans, or a scan and a waiter's order, never leave *)
(* a table with two active sessions.                                         *)
THEOREM OneAccountPerTable == Spec => []OneActivePerTable
<1>1. TypeOK /\ OneActivePerTable /\ [Next]_vars => OneActivePerTable'
  BY NextOne
<1> QED
  BY <1>1, InitOne, RowsLinked, PTL DEF Spec

-----------------------------------------------------------------------------
(* One live order per diner. *)

LEMMA InitLive == Init => OneLiveOrderPerDiner
BY DEF Init, OneLiveOrderPerDiner, Live

(* Nothing but an insertion makes an order live or gives it a diner.         *)
LEMMA NoneMore ==
  ASSUME OneLiveOrderPerDiner,
         \A o \in Orders : Live(o)' => Live(o) /\ order'[o].diner = order[o].diner
  PROVE  OneLiveOrderPerDiner'
BY DEF OneLiveOrderPerDiner

LEMMA InsertedOne ==
  ASSUME TypeOK, OneLiveOrderPerDiner, NEW o \in Orders, NEW status, NEW q, NEW s, NEW pooled,
         OneMore(q.diner), Inserted(o, status, q, s, pooled)
  PROVE  OneLiveOrderPerDiner'
BY Parts DEF Inserted, OneMore, LiveOfDiner, OneLiveOrderPerDiner, Live, OrdersOK

LEMMA NextLive ==
  ASSUME TypeOK, OneLiveOrderPerDiner, [Next]_vars
  PROVE  OneLiveOrderPerDiner'
<1>1. ASSUME UNCHANGED order PROVE OneLiveOrderPerDiner'
  BY <1>1, NoneMore DEF Live
<1>2. ASSUME NEW r \in Requests, Come(r) PROVE OneLiveOrderPerDiner'
  <2>1. ASSUME NEW o \in Orders, CommitSubmit(r, o) PROVE OneLiveOrderPerDiner'
    BY <2>1, InsertedOne DEF CommitSubmit
  <2>2. ASSUME NEW o \in Orders, NEW s \in Sessions, NEW hold \in BOOLEAN,
               CommitOrder(r, o, s, hold)
        PROVE  OneLiveOrderPerDiner'
    BY <2>2, InsertedOne DEF CommitOrder
  <2>3. ASSUME NEW o \in Orders, CancelMyOrder(r, o) PROVE OneLiveOrderPerDiner'
    BY <2>3, Parts, NoneMore DEF CancelMyOrder, Cancelled, OrdersOK, OrderRow, Live, Terminal
  <2> QED
    BY <1>1, <1>2, <2>1, <2>2, <2>3
       DEF Come, BeginOpen, CommitOpen, BeginSubmit, BeginOrder, CommitRelease, GiveUp
<1>3. ASSUME NEW o \in Orders, GoOn(o) PROVE OneLiveOrderPerDiner'
  <2> USE Parts, NoneMore DEF OrdersOK, OrderRow, Live, Terminal
  <2>1. ASSUME AddItem(o) \/ FinishCooking(o) PROVE OneLiveOrderPerDiner'
    BY <2>1 DEF AddItem, FinishCooking
  <2>2. ASSUME ChargeAndSend(o) \/ PayOrder(o) PROVE OneLiveOrderPerDiner'
    BY <2>2 DEF ChargeAndSend, PayOrder, SetStatus
  <2>3. ASSUME CancelOrder(o) PROVE OneLiveOrderPerDiner'
    BY <2>3 DEF CancelOrder, Cancelled
  <2>4. ASSUME NEW t \in Tables, NEW s \in Sessions, ConsolidateTable(t, o, s)
        PROVE  OneLiveOrderPerDiner'
    <3>1. CASE order' = [order EXCEPT ![o].cooking = TRUE]
      BY <3>1
    <3>2. CASE Inserted(o, "abierta", [Idle EXCEPT !.table = t], s, TRUE)
      <4>1. OneMore([Idle EXCEPT !.table = t].diner)
        BY DEF OneMore, Idle
      <4> QED
        BY <3>2, <4>1, InsertedOne
    <3> QED
      BY <2>4, <3>1, <3>2 DEF ConsolidateTable
  <2> QED
    BY <1>3, <2>1, <2>2, <2>3, <2>4 DEF GoOn
<1>4. ASSUME Close PROVE OneLiveOrderPerDiner'
  <2>1. ASSUME NEW s \in Sessions, CloseSession(s) PROVE OneLiveOrderPerDiner'
    BY <2>1, Parts, NoneMore DEF CloseSession, OrdersOK, OrderRow, Live, Terminal
  <2> QED
    BY <1>1, <1>4, <2>1 DEF Close, LeaveSession, AbandonExpired, ReleasePaidSession, Sweep, ReleaseTable
<1>5. ASSUME Staff PROVE OneLiveOrderPerDiner'
  <2>1. ASSUME NEW o \in Orders, NEW t \in Tables, MoveOrder(o, t)
        PROVE  OneLiveOrderPerDiner'
    BY <2>1, Parts, NoneMore DEF MoveOrder, Movable, OrdersOK, OrderRow, Live, Terminal
  <2> QED
    BY <1>1, <1>5, <2>1 DEF Staff, AddParticipant, SetTableStatus
<1>6. ASSUME UNCHANGED vars PROVE OneLiveOrderPerDiner'
  BY <1>1, <1>6 DEF vars
<1> QED
  BY <1>2, <1>3, <1>4, <1>5, <1>6 DEF Next

(* OneLiveOrderPerDiner: a double submit, or a submit and the staff's order  *)
(* for the same diner, never give him two live orders.                       *)
THEOREM OneOrderPerDiner == Spec => []OneLiveOrderPerDiner
<1>1. TypeOK /\ OneLiveOrderPerDiner /\ [Next]_vars => OneLiveOrderPerDiner'
  BY NextLive
<1> QED
  BY <1>1, InitLive, RowsLinked, PTL DEF Spec

-----------------------------------------------------------------------------
(* What a close leaves behind. *)

\* What one step owes to each session it closes.
Settled == \A s \in Sessions : Closes(s) => SettlesOrders(s)
Emptied == \A s \in Sessions : Closes(s) => LeavesNobody(s)

LEMMA NobodyCloses ==
  ASSUME UNCHANGED session
  PROVE  Settled /\ Emptied
BY DEF Settled, Emptied, Closes

LEMMA SeatedCloses ==
  ASSUME TypeOK, NEW t, NEW read, NEW s \in Sessions, Seated(t, read, s)
  PROVE  Settled /\ Emptied
<1>1. \A x \in Sessions : ~Closes(x)
  BY Parts DEF Seated, Closes, SessionsOK, SessionRow
<1> QED
  BY <1>1 DEF Settled, Emptied

(* Who closes the sessions of a table closes nothing else, sends away the    *)
(* diners of what he closes, and closes one: the one whose account he read.  *)
LEMMA ShutCloses ==
  ASSUME TypeOK, OneActivePerTable, NEW t \in Tables, NEW D, Shut(Active(t), D)
  PROVE  /\ \A s \in Sessions : Closes(s) => s \in Active(t)
         /\ \A s \in Active(t) : \A d \in OpenIn(s) : diner'[d].status = "closed"
         /\ \A s \in Sessions : session[s].status = "active" /\ session[s].table = t
              => Active(t) = {s}
<1> USE Parts DEF SessionsOK, SessionRow, DinersOK, DinerRow, Active
<1>1. \A s \in Sessions : Closes(s) => s \in Active(t)
  BY DEF Shut, CloseDiners, Closes
<1>2. \A s \in Active(t) : \A d \in OpenIn(s) : diner'[d].status = "closed"
  BY DEF Shut, CloseDiners, OpenIn
<1>3. \A s \in Sessions : session[s].status = "active" /\ session[s].table = t
        => Active(t) = {s}
  BY DEF OneActivePerTable
<1> QED
  BY <1>1, <1>2, <1>3

LEMMA ShutNone ==
  ASSUME TypeOK, NEW D, Shut({}, D)
  PROVE  Settled /\ Emptied
<1>1. \A s \in Sessions : ~Closes(s)
  BY Parts DEF Shut, CloseDiners, Closes, SessionsOK, SessionRow
<1> QED
  BY <1>1 DEF Settled, Emptied

(* The account of a session with nothing to charge is settled.               *)
LEMMA NothingLeft ==
  ASSUME TypeOK, NEW s \in Sessions, Billable(s) = {}
  PROVE  \A o \in OrdersOf(s) : order[o].status \in Terminal
BY Parts, SessionsAssumption
   DEF Billable, OrdersOf, Live, OrdersOK, OrderLinked, OrderRow, Terminal

(* The two ways to look at what is left: the session's orders and the        *)
(* table's.                                                                  *)
LEMMA CloseByAccount ==
  ASSUME TypeOK, OneActivePerTable, NEW s \in Sessions, session[s].status = "active",
         NEW D, Shut(Active(session[s].table), D),
         \A o \in OrdersOf(s) : order'[o].status \in Terminal
  PROVE  /\ Settled
         /\ \/ MarkTable(session[s].table, "libre")
            \/ \E o \in LiveOn(session[s].table) : order[o].ses # s
            => Emptied
<1> DEFINE t == session[s].table
<1>1. t \in Tables
  BY ReadsOK
<1>2. \A x \in Sessions : Closes(x) => x = s
  BY <1>1, ShutCloses
<1>3. Settled
  BY <1>2 DEF Settled, SettlesOrders
<1>4. ASSUME MarkTable(t, "libre") \/ \E o \in LiveOn(t) : order[o].ses # s
      PROVE  Emptied
  <2>1. \A d \in OpenIn(s) : diner'[d].status = "closed"
    BY <1>1, ShutCloses DEF Active
  <2>2. MarkTable(t, "libre") => table'[t] = "libre"
    BY <1>1, Parts DEF MarkTable, TablesOK
  <2> QED
    BY <1>2, <1>4, <2>1, <2>2 DEF Emptied, LeavesNobody
<1> QED
  BY <1>3, <1>4

LEMMA CloseByTable ==
  ASSUME TypeOK, OneActivePerTable, NEW t \in Tables, ReleaseTable(t)
  PROVE  Settled /\ Emptied
<1>1. \A x \in Sessions : Closes(x) =>
        x \in Active(t) /\ \A d \in OpenIn(x) : diner'[d].status = "closed"
  BY ShutCloses DEF ReleaseTable
<1>2. ASSUME NEW x \in Active(t) PROVE SettlesOrders(x)
  BY <1>2, Parts, SessionsAssumption DEF ReleaseTable, SettlesOrders, OrdersOf, LiveOn, Live,
     Active, OrdersOK, OrderLinked, OrderRow, Opened, Terminal
<1>3. table'[t] = "libre"
  BY Parts DEF ReleaseTable, MarkTable, TablesOK
<1> QED
  BY <1>1, <1>2, <1>3 DEF Settled, Emptied, LeavesNobody, Active

LEMMA ReleaseCloses ==
  ASSUME TypeOK, OneActivePerTable, NEW s \in Sessions, NEW D, ReleaseIfEmpty(s, D),
         \A o \in OrdersOf(s) : order'[o].status = order[o].status
  PROVE  Settled /\ Emptied
<1>1. CASE Empty(s, D) /\ Shut(Active(session[s].table), D)
           /\ MarkTable(session[s].table, "libre")
  BY <1>1, NothingLeft, CloseByAccount DEF Empty
<1>2. CASE Shut({}, D)
  BY <1>2, ShutNone
<1> QED
  BY <1>1, <1>2 DEF ReleaseIfEmpty

LEMMA NextCloses ==
  ASSUME TypeOK, OneActivePerTable, [Next]_vars
  PROVE  Settled /\ Emptied
<1> USE NobodyCloses
<1>1. ASSUME NEW r \in Requests, Come(r) PROVE Settled /\ Emptied
  <2>1. ASSUME NEW d \in Diners, NEW s \in Sessions, CommitOpen(r, d, s)
        PROVE  Settled /\ Emptied
    BY <2>1, SeatedCloses DEF CommitOpen
  <2>2. ASSUME NEW o \in Orders, NEW s \in Sessions, NEW hold \in BOOLEAN,
               CommitOrder(r, o, s, hold)
        PROVE  Settled /\ Emptied
    BY <2>2, SeatedCloses DEF CommitOrder
  <2>3. ASSUME CommitRelease(r) PROVE Settled /\ Emptied
    <3>1. req[r].ses \in Sessions
      BY <2>3, Parts DEF CommitRelease, RequestsOK, RequestLinked, Request
    <3> QED
      BY <2>3, <3>1, ReleaseCloses DEF CommitRelease
  <2> QED
    BY <1>1, <2>1, <2>2, <2>3
       DEF Come, BeginOpen, BeginSubmit, CommitSubmit, BeginOrder, CancelMyOrder, GiveUp
<1>2. ASSUME NEW o \in Orders, GoOn(o) PROVE Settled /\ Emptied
  <2>1. ASSUME NEW t \in Tables, NEW s \in Sessions, ConsolidateTable(t, o, s)
        PROVE  Settled /\ Emptied
    BY <2>1, SeatedCloses DEF ConsolidateTable
  <2> QED
    BY <1>2, <2>1
       DEF GoOn, AddItem, FinishCooking, ChargeAndSend, PayOrder, CancelOrder, SetStatus
<1>3. ASSUME Close PROVE Settled /\ Emptied
  <2>1. ASSUME NEW d \in Diners, LeaveSession(d) PROVE Settled /\ Emptied
    <3>1. diner[d].ses \in Sessions
      BY <2>1, ReadsOK DEF LeaveSession, AbandonExpired, InContext
    <3> QED
      BY <2>1, <3>1, ReleaseCloses DEF LeaveSession, AbandonExpired
  <2>2. ASSUME NEW s \in Sessions, CloseSession(s) PROVE Settled /\ Emptied
    <3>1. \A o \in OrdersOf(s) : order'[o].status \in Terminal
      BY <2>2, Parts, SessionsAssumption DEF CloseSession, Billable, OrdersOf, Live,
         OrdersOK, OrderLinked, OrderRow, Terminal
    <3> QED
      BY <2>2, <3>1, CloseByAccount DEF CloseSession, CloseAndFree
  <2>3. ASSUME NEW s \in Sessions, ReleasePaidSession(s) PROVE Settled /\ Emptied
    BY <2>3, NothingLeft, CloseByAccount DEF ReleasePaidSession, CloseAndFree
  <2>4. ASSUME NEW s \in Sessions, Sweep(s) PROVE Settled /\ Emptied
    <3> DEFINE t == session[s].table
    <3>1. CASE Shut({}, OpenIn(s))
      BY <3>1, ShutNone
    <3>2. CASE /\ Billable(s) = {} /\ Shut(Active(t), {})
               /\ IF LiveOn(t) = {} THEN MarkTable(t, "libre") ELSE UNCHANGED table
      <4>1. \A o \in OrdersOf(s) : order'[o].status \in Terminal
        BY <2>4, <3>2, NothingLeft DEF Sweep
      <4>2. \A o \in LiveOn(t) : order[o].ses # s
        BY <3>2 DEF LiveOn, Billable, OrdersOf
      <4> QED
        BY <2>4, <3>2, <4>1, <4>2, CloseByAccount DEF Sweep
    <3> QED
      BY <2>4, <3>1, <3>2 DEF Sweep
  <2> QED
    BY <1>3, <2>1, <2>2, <2>3, <2>4, CloseByTable DEF Close
<1>4. ASSUME Staff PROVE Settled /\ Emptied
  BY <1>4 DEF Staff, AddParticipant, SetTableStatus, MoveOrder, Movable
<1>5. ASSUME UNCHANGED vars PROVE Settled /\ Emptied
  BY <1>5 DEF vars
<1> QED
  BY <1>1, <1>2, <1>3, <1>4, <1>5 DEF Next

(* SettledAtClose: none of the ways to close a session leaves one of the     *)
(* orders on its table neither charged nor cancelled.                        *)
THEOREM ClosersSettle == Spec => SettledAtClose
<1>1. TypeOK /\ OneActivePerTable /\ [Next]_vars
        => [\A s \in Sessions : Closes(s) => SettlesOrders(s)]_vars
  BY NextCloses DEF Settled
<1> QED
  BY <1>1, RowsLinked, OneAccountPerTable, PTL DEF Spec, SettledAtClose

(* ClosedIsEmptied: a close sends the diners away and frees the table,       *)
(* unless a live order of another session stands on it.                      *)
THEOREM ClosersEmpty == Spec => ClosedIsEmptied
<1>1. TypeOK /\ OneActivePerTable /\ [Next]_vars
        => [\A s \in Sessions : Closes(s) => LeavesNobody(s)]_vars
  BY NextCloses DEF Emptied
<1> QED
  BY <1>1, RowsLinked, OneAccountPerTable, PTL DEF Spec, ClosedIsEmptied

=============================================================================
