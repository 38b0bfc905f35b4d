---------------------------- MODULE TableSessions ----------------------------
(***************************************************************************)
(* Table sessions: the account that the diners of a table share, from the  *)
(* first scan of the QR to the close that charges it or the release that   *)
(* gives the table up (app/api/v1/table_sessions, the diner's side of      *)
(* app/api/v1/cart, app/api/v1/orders and the sweep of core/scheduler).    *)
(*                                                                         *)
(* Whoever puts something into a session (a diner, an order) first reads   *)
(* which session the table has and what is in it, without locks, and       *)
(* inserts later: those handlers are a Begin action, that fills a request, *)
(* and a Commit action.  Whoever closes a session is one action.  The      *)
(* partial unique indexes are checked again by the insertion.              *)
(*                                                                         *)
(* An order is what the session sees of it: OrderLifecycle has the rest,   *)
(* and by its invariant a sale that names an order makes it pagada, so     *)
(* "without a sale" is not repeated here.  Time is abstracted: a token or  *)
(* a session may be found expired at any moment.  A diner may have a cart  *)
(* with items whenever he can use it.                                      *)
(***************************************************************************)
EXTENDS Integers, FiniteSets

CONSTANTS
  Tables,    \* ids of dining_tables rows
  Sessions,  \* ids of table_sessions rows
  Diners,    \* ids of session_participants rows
  Orders,    \* ids of customer_orders rows
  Requests,  \* the requests that may be half way at once
  Marks,     \* the statuses that the staff puts on a table by hand
  None       \* NULL

TableStatuses == {"libre", "ocupada", "reservada", "pendiente_pago"}

ASSUME SessionsAssumption ==
  /\ None \notin Tables \cup Sessions \cup Diners \cup Orders
  /\ Marks \subseteq TableStatuses

VARIABLES
  session,  \* table_sessions: status and table
  diner,    \* session_participants: status, session, and whether by QR (with a token)
  order,    \* customer_orders: status, session, table, diner, channel, pooled, and
            \* whether it has lines unfinished in the kitchen
  table,    \* dining_tables.status
  req       \* what each request has read so far

vars == <<session, diner, order, table, req>>

\* abierta stands for abierta and bloqueada.
OrderStatuses == {"ausente", "recibida", "abierta", "pagada", "cancelada"}
Terminal      == {"pagada", "cancelada"}

SessionRow == [status : {"ausente", "active", "closed"}, table : Tables \cup {None}]
DinerRow   == [status : {"ausente", "open", "closed"},
               ses : Sessions \cup {None}, qr : BOOLEAN]
OrderRow   == [status : OrderStatuses, ses : Sessions \cup {None},
               table : Tables \cup {None}, diner : Diners \cup {None},
               qr : BOOLEAN, pooled : BOOLEAN, cooking : BOOLEAN]
Request    == [step : {"idle", "open", "order", "submit", "release"},
               ses : Sessions \cup {None}, table : Tables \cup {None},
               diner : Diners \cup {None}, qr : BOOLEAN, busy : BOOLEAN]

Typed ==
  /\ session \in [Sessions -> SessionRow]
  /\ diner \in [Diners -> DinerRow]
  /\ order \in [Orders -> OrderRow]
  /\ table \in [Tables -> TableStatuses]
  /\ req \in [Requests -> Request]

Opened(s) == s \in Sessions /\ session[s].status # "ausente"

\* Foreign keys: what exists hangs from a session that was opened, on a table.
SessionLinked(s) == session[s].status = "ausente" <=> session[s].table = None
DinerLinked(d)   == IF diner[d].status = "ausente" THEN diner[d].ses = None
                                                   ELSE Opened(diner[d].ses)
OrderLinked(o)   == IF order[o].status = "ausente"
                    THEN order[o].ses = None
                    ELSE Opened(order[o].ses) /\ order[o].table # None
RequestLinked(r) ==
  /\ req[r].step \in {"open", "order", "submit"} => req[r].table # None
  /\ req[r].step \in {"submit", "release"} => req[r].ses # None
  /\ req[r].ses # None => Opened(req[r].ses)

Linked ==
  /\ \A s \in Sessions : SessionLinked(s)
  /\ \A d \in Diners : DinerLinked(d)
  /\ \A o \in Orders : OrderLinked(o)
  /\ \A r \in Requests : RequestLinked(r)

\* Rows keep their types, and no order is ever left without a session, which is what
\* lets it be charged (get_or_create_table_session_id), nor without a table.
TypeOK == Typed /\ Linked

Idle == [step |-> "idle", ses |-> None, table |-> None, diner |-> None,
         qr |-> FALSE, busy |-> FALSE]

Init ==
  /\ session = [s \in Sessions |-> [status |-> "ausente", table |-> None]]
  /\ diner = [d \in Diners |-> [status |-> "ausente", ses |-> None, qr |-> FALSE]]
  /\ order = [o \in Orders |-> [status |-> "ausente", ses |-> None, table |-> None,
                                diner |-> None, qr |-> FALSE, pooled |-> FALSE,
                                cooking |-> FALSE]]
  /\ table = [t \in Tables |-> "libre"]
  /\ req = [r \in Requests |-> Idle]

-----------------------------------------------------------------------------
(* What the handlers read. *)

Active(t)   == {s \in Sessions : session[s].status = "active" /\ session[s].table = t}
OpenIn(s)   == {d \in Diners : diner[d].status = "open" /\ diner[d].ses = s}
OrdersOf(s) == {o \in Orders : order[o].ses = s}
Live(o)     == order[o].status \notin Terminal \cup {"ausente"}

\* has_billable_orders, and _billable_orders.
Billable(s) == {o \in OrdersOf(s) : Live(o)}

\* close_session looks at what it charges; a paid order may still be cooking.
Closable(O) == \A o \in O : order[o].status # "recibida" /\ ~order[o].cooking

\* _active_orders_on_table: live, or paid with food in the kitchen.
Occupying(o) == Live(o) \/ (order[o].status = "pagada" /\ order[o].cooking)
OccupiedBy(t) == {o \in Orders : order[o].table = t /\ Occupying(o)}

LiveOn(t)      == {o \in Orders : order[o].table = t /\ Live(o)}
LiveOfDiner(d) == {o \in Orders : order[o].diner = d /\ Live(o)}
LiveQr(s)      == {o \in Billable(s) : order[o].qr}
LivePos(s)     == {o \in Billable(s) : ~order[o].qr}

\* open_session_context: the diner is open and his session is the active one.
InContext(d) ==
  /\ diner[d].status = "open" /\ diner[d].qr
  /\ session[diner[d].ses].status = "active"

\* get_or_create_table_session_id, _get_or_create_table_session: what is read ...
Found(t, s) == s \in Active(t) \/ (Active(t) = {} /\ s = None)

\* ... and what is inserted: the session read, whatever became of it, or a new one
\* unless idx_active_session_per_table finds another.
Seated_NoIndex(t, read, s) ==
  \/ read # None /\ s = read /\ UNCHANGED session
  \/ /\ read = None /\ session[s].status = "ausente"
     /\ session' = [session EXCEPT ![s] = [status |-> "active", table |-> t]]

Seated(t, read, s) ==
  \/ read # None /\ s = read /\ UNCHANGED session
  \/ /\ read = None /\ session[s].status = "ausente" /\ Active(t) = {}
     /\ session' = [session EXCEPT ![s] = [status |-> "active", table |-> t]]

\* idx_active_order_per_participant.
OneMore_NoIndex(d) == d # None => diner[d].status # "ausente"
OneMore(d) == d # None => diner[d].status # "ausente" /\ LiveOfDiner(d) = {}

-----------------------------------------------------------------------------
(* What the handlers write. *)

MarkTable(t, s) == table' = [table EXCEPT ![t] = s]

\* A creator that saw the table ocupada does not write it.
Occupy(t, busy) == IF busy THEN UNCHANGED table ELSE MarkTable(t, "ocupada")

\* close_participants, or close_participant for one.
CloseDiners(D) ==
  diner' = [d \in Diners |-> IF d \in D THEN [diner[d] EXCEPT !.status = "closed"]
                                        ELSE diner[d]]

\* close_table_sessions over the sessions of S, each with its diners, and those of D.
Shut_KeepDiners(S, D) ==
  /\ session' = [s \in Sessions |->
                   IF s \in S THEN [session[s] EXCEPT !.status = "closed"] ELSE session[s]]
  /\ CloseDiners(D)

Shut(S, D) ==
  /\ session' = [s \in Sessions |->
                   IF s \in S THEN [session[s] EXCEPT !.status = "closed"] ELSE session[s]]
  /\ CloseDiners(D \cup UNION {OpenIn(s) : s \in S})

\* try_release_if_empty, with the diners of D leaving in the same transaction.
Empty_DinersOnly(s, D) == session[s].status = "active" /\ OpenIn(s) \subseteq D
Empty(s, D) == session[s].status = "active" /\ OpenIn(s) \subseteq D /\ Billable(s) = {}

ReleaseIfEmpty(s, D) ==
  \/ /\ Empty(s, D)
     /\ Shut(Active(session[s].table), D)
     /\ MarkTable(session[s].table, "libre")
  \/ /\ ~Empty(s, D)
     /\ Shut({}, D)
     /\ UNCHANGED table

SetStatus(o, s) ==
  /\ order' = [order EXCEPT ![o].status = s]
  /\ UNCHANGED <<session, diner, table, req>>

\* A new order of session ses, for the request q.
Inserted(o, status, q, ses, pooled) ==
  order' = [order EXCEPT ![o] = [status |-> status, ses |-> ses, table |-> q.table,
                                 diner |-> q.diner, qr |-> q.qr, pooled |-> pooled,
                                 cooking |-> TRUE]]

Ask(r, q) == req[r].step = "idle" /\ req' = [req EXCEPT ![r] = q]

Done(r) == req' = [req EXCEPT ![r] = Idle]

-----------------------------------------------------------------------------
(* Diners and orders come in: a Begin that reads and a Commit that inserts. *)

\* open_session: scanning the QR joins the table's session, or opens one.
BeginOpen(r, t) ==
  /\ \E s \in Sessions \cup {None} :
       /\ Found(t, s)
       /\ Ask(r, [Idle EXCEPT !.step = "open", !.ses = s, !.table = t,
                              !.busy = (table[t] = "ocupada")])
  /\ UNCHANGED <<session, diner, order, table>>

CommitOpen(r, d, s) ==
  /\ req[r].step = "open"
  /\ diner[d].status = "ausente"
  /\ Seated(req[r].table, req[r].ses, s)
  /\ diner' = [diner EXCEPT ![d] = [status |-> "open", ses |-> s, qr |-> TRUE]]
  /\ Occupy(req[r].table, req[r].busy)
  /\ Done(r)
  /\ UNCHANGED order

\* submit_cart: one live order per diner, and no POS order in the session.
BeginSubmit(r, d) ==
  LET s == diner[d].ses
  IN  /\ InContext(d)
      /\ LiveOfDiner(d) = {} /\ LivePos(s) = {}
      /\ Ask(r, [Idle EXCEPT !.step = "submit", !.ses = s, !.table = session[s].table,
                             !.diner = d, !.qr = TRUE])
      /\ UNCHANGED <<session, diner, order, table>>

CommitSubmit(r, o) ==
  /\ req[r].step = "submit"
  /\ order[o].status = "ausente"
  /\ OneMore(req[r].diner)
  /\ Inserted(o, "recibida", req[r], req[r].ses, FALSE)
  /\ Done(r)
  /\ UNCHANGED <<session, diner, table>>

\* create_order, by the staff, for a diner or on a table.  A POS order does not go on
\* top of a live QR one.
NoMixing(s, qr) == qr \/ s = None \/ LiveQr(s) = {}

BeginOrder(r, t, d, qr) ==
  /\ \E s \in Sessions \cup {None} :
       /\ \/ d = None /\ Found(t, s)
          \/ d # None /\ diner[d].status = "open" /\ s = diner[d].ses
             /\ t = session[s].table
       /\ NoMixing(s, qr)
       /\ Ask(r, [Idle EXCEPT !.step = "order", !.ses = s, !.table = t, !.diner = d,
                              !.qr = qr, !.busy = (s # None \/ table[t] = "ocupada")])
  /\ UNCHANGED <<session, diner, order, table>>

CommitOrder(r, o, s, hold) ==
  /\ req[r].step = "order"
  /\ order[o].status = "ausente"
  /\ ~(hold /\ req[r].qr)
  /\ OneMore(req[r].diner)
  /\ Seated(req[r].table, req[r].ses, s)
  /\ Occupy(req[r].table, req[r].busy)
  /\ Inserted(o, IF hold THEN "recibida" ELSE "abierta", req[r], s, FALSE)
  /\ Done(r)
  /\ UNCHANGED diner

\* The insertion breaks an index, the client goes away, the process dies.
GiveUp(r) ==
  /\ req[r].step # "idle"
  /\ Done(r)
  /\ UNCHANGED <<session, diner, order, table>>

\* consolidate_table: the staff gathers the carts of the open diners of a table into
\* its pooled order, wherever that one was opened, or into a new one when it has none
\* that is not bloqueada.
Pooled(t) == {o \in LiveOn(t) : order[o].status = "abierta" /\ order[o].pooled}

ConsolidateTable(t, o, s) ==
  /\ \E d \in Diners : diner[d].status = "open" /\ diner[d].qr
                       /\ session[diner[d].ses].table = t
  /\ \E read \in Sessions \cup {None} :
       /\ Found(t, read)
       /\ Seated(t, read, s)
       /\ Occupy(t, read # None)
  /\ \/ o \in Pooled(t) /\ order' = [order EXCEPT ![o].cooking = TRUE]
     \/ /\ order[o].status = "ausente"
        /\ Inserted(o, "abierta", [Idle EXCEPT !.table = t], s, TRUE)
  /\ UNCHANGED <<diner, req>>

\* add_participant: a name on the bill, without a token.
AddParticipant(d, s) ==
  /\ session[s].status = "active"
  /\ diner[d].status = "ausente"
  /\ diner' = [diner EXCEPT ![d] = [status |-> "open", ses |-> s, qr |-> FALSE]]
  /\ UNCHANGED <<session, order, table, req>>

-----------------------------------------------------------------------------
(* Orders go on, each handler seen from the session. *)

\* add_item_to_order.
AddItem(o) ==
  /\ Live(o)
  /\ order' = [order EXCEPT ![o].cooking = TRUE]
  /\ UNCHANGED <<session, diner, table, req>>

\* The kitchen finishes, or the staff voids, the last line that was waiting.
FinishCooking(o) ==
  /\ order[o].cooking
  /\ order' = [order EXCEPT ![o].cooking = FALSE]
  /\ UNCHANGED <<session, diner, table, req>>

\* checkout_and_send, approve and confirm-cash charge before the kitchen starts,
\* block_order and pay_order after it has finished.
ChargeAndSend(o) == order[o].status = "recibida" /\ SetStatus(o, "pagada")
PayOrder(o)      == order[o].status = "abierta" /\ ~order[o].cooking /\ SetStatus(o, "pagada")

\* Nothing looks at the kitchen of a cancelled order.
Cancelled(o) == order' = [order EXCEPT ![o].status = "cancelada", ![o].cooking = FALSE]
CancelOrder(o) == Live(o) /\ Cancelled(o) /\ UNCHANGED <<session, diner, table, req>>

\* cancel_my_order cancels in one transaction, and releases the table in another.
CancelMyOrder(r, o) ==
  LET d == order[o].diner
  IN  /\ order[o].status \in {"recibida", "abierta"}
      /\ d # None /\ InContext(d)
      /\ Cancelled(o)
      /\ Ask(r, [Idle EXCEPT !.step = "release", !.ses = diner[d].ses])
      /\ UNCHANGED <<session, diner, table>>

CommitRelease(r) ==
  /\ req[r].step = "release"
  /\ ReleaseIfEmpty(req[r].ses, {})
  /\ Done(r)
  /\ UNCHANGED order

-----------------------------------------------------------------------------
(* Sessions are closed and tables freed. *)

\* _abandon_expired, when his token is found expired; leave_session does the same.
AbandonExpired(d) == ReleaseIfEmpty(diner[d].ses, {d}) /\ UNCHANGED <<order, req>>
LeaveSession(d)   == InContext(d) /\ AbandonExpired(d)

CloseAndFree(s) ==
  /\ Shut(Active(session[s].table), {})
  /\ MarkTable(session[s].table, "libre")
  /\ UNCHANGED req

\* close_session: charge everything billable, close, free the table.
CloseSession(s) ==
  /\ session[s].status = "active"
  /\ Billable(s) # {} /\ Closable(Billable(s))
  /\ order' = [o \in Orders |-> IF o \in Billable(s)
                                THEN [order[o] EXCEPT !.status = "pagada"] ELSE order[o]]
  /\ CloseAndFree(s)

\* release_paid_session: nothing left to charge, nor in the kitchen.
ReleasePaidSession(s) ==
  /\ session[s].status = "active"
  /\ Billable(s) = {}
  /\ Closable({o \in OrdersOf(s) : order[o].status # "cancelada"})
  /\ CloseAndFree(s)
  /\ UNCHANGED order

\* release_table looks at the orders that stand on the table.
ReleaseTable(t) ==
  /\ LiveOn(t) = {}
  /\ Shut(Active(t), {})
  /\ MarkTable(t, "libre")
  /\ UNCHANGED <<order, req>>

\* _sweep_schema: with something to charge the session stays and its diners go;
\* otherwise it is closed, and the table freed if nothing live stands on it.
Sweep(s) ==
  LET t == session[s].table
  IN  /\ session[s].status = "active"
      /\ \/ /\ Billable(s) # {}
            /\ Shut({}, OpenIn(s))
            /\ UNCHANGED table
         \/ /\ Billable(s) = {}
            /\ Shut(Active(t), {})
            /\ IF LiveOn(t) = {} THEN MarkTable(t, "libre") ELSE UNCHANGED table
      /\ UNCHANGED <<order, req>>

\* set_table_status: the staff marks a table by hand.
SetTableStatus(t, m) ==
  /\ m \in {"libre", "reservada"} => OccupiedBy(t) = {}
  /\ MarkTable(t, m)
  /\ UNCHANGED <<session, diner, order, req>>

\* _order_locked_for_move_or_merge says which orders may be moved, or merged with others.
Movable(o) == Live(o) \/ (order[o].status = "pagada" /\ ~order[o].cooking)

\* move_order changes the table of an order and leaves it in its session.  (merge_orders
\* changes nothing that the sessions see.)
MoveOrder(o, t) ==
  LET from == order[o].table
  IN  /\ Movable(o)
      /\ t # from /\ OccupiedBy(t) = {}
      /\ order' = [order EXCEPT ![o].table = t]
      /\ table' = [table EXCEPT ![t] = "ocupada",
                                ![from] = IF OccupiedBy(from) \ {o} = {} THEN "libre" ELSE @]
      /\ UNCHANGED <<session, diner, req>>

-----------------------------------------------------------------------------

Come(r) ==
  \/ \E t \in Tables : BeginOpen(r, t)
  \/ \E d \in Diners, s \in Sessions : CommitOpen(r, d, s)
  \/ \E d \in Diners : BeginSubmit(r, d)
  \/ \E o \in Orders : CommitSubmit(r, o)
  \/ \E t \in Tables, d \in Diners \cup {None}, qr \in BOOLEAN : BeginOrder(r, t, d, qr)
  \/ \E o \in Orders, s \in Sessions, hold \in BOOLEAN : CommitOrder(r, o, s, hold)
  \/ \E o \in Orders : CancelMyOrder(r, o)
  \/ CommitRelease(r)
  \/ GiveUp(r)

GoOn(o) ==
  \/ AddItem(o) \/ FinishCooking(o) \/ ChargeAndSend(o) \/ PayOrder(o)
  \/ CancelOrder(o)
  \/ \E t \in Tables, s \in Sessions : ConsolidateTable(t, o, s)

Close ==
  \/ \E d \in Diners : LeaveSession(d)
  \/ \E s \in Sessions : CloseSession(s) \/ ReleasePaidSession(s) \/ Sweep(s)
  \/ \E t \in Tables : ReleaseTable(t)

Staff ==
  \/ \E d \in Diners, s \in Sessions : AddParticipant(d, s)
  \/ \E t \in Tables, m \in Marks : SetTableStatus(t, m)
  \/ \E o \in Orders, t \in Tables : MoveOrder(o, t)

Next ==
  \/ \E r \in Requests : Come(r)
  \/ \E o \in Orders : GoOn(o)
  \/ Close
  \/ Staff

Spec == Init /\ [][Next]_vars

-----------------------------------------------------------------------------
(* Safety, whatever overlaps with what. *)

\* A table has at most one active session, even when two scans, or a scan and a
\* waiter's order, both found none (idx_active_session_per_table).
OneActivePerTable ==
  \A s1, s2 \in Sessions :
    /\ session[s1].status = "active" /\ session[s2].status = "active"
    /\ session[s1].table = session[s2].table
    => s1 = s2

\* A diner has at most one live order, whoever sends it for him.
OneLiveOrderPerDiner ==
  \A o1, o2 \in Orders :
    Live(o1) /\ Live(o2) /\ order[o1].diner = order[o2].diner /\ order[o1].diner # None
    => o1 = o2

\* Whoever closes a session (the cashier, the last diner to leave, the sweep) leaves
\* none of its orders that stand on its table without having been charged or cancelled.
Closes(s) == session[s].status = "active" /\ session'[s].status # "active"
SettlesOrders(s) ==
  \A o \in OrdersOf(s) : order'[o].status \in Terminal \/ order[o].table # session[s].table
SettledAtClose == [][\A s \in Sessions : Closes(s) => SettlesOrders(s)]_vars

\* Closing a session sends its diners away, and frees its table unless a live order of
\* another session was moved to it.
LeavesNobody(s) ==
  /\ \A d \in OpenIn(s) : diner'[d].status = "closed"
  /\ \/ table'[session[s].table] = "libre"
     \/ \E o \in LiveOn(session[s].table) : order[o].ses # s
ClosedIsEmptied == [][\A s \in Sessions : Closes(s) => LeavesNobody(s)]_vars

-----------------------------------------------------------------------------
(* The account, one request at a time. *)

OneAtATime == (\E r \in Requests : req[r].step # "idle")
                => \A r \in Requests : req'[r].step = "idle"
SerialSpec == Init /\ [][Next /\ OneAtATime]_vars

\* "With something to charge the session is not closed": a live order always hangs
\* from an active session, where it can be charged (_sweep_schema says why).
LiveHasAccount == \A o \in Orders : Live(o) => session[order[o].ses].status = "active"
=============================================================================
