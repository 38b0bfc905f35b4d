------------------------------- MODULE OrderFeed -------------------------------
(***************************************************************************)
(* What the screens learn of an order: the events that the handlers of     *)
(* orders/router.py, cart/router.py and table_sessions/service.py publish  *)
(* through core/events.py, and the lists that the screens poll with an     *)
(* ETag, core/http_cache.py.                                               *)
(*                                                                         *)
(* A handler reads, commits in the service, and only then publishes; each  *)
(* event is built from the row as it is read again at that moment, and     *)
(* XADDed in a step of its own.  Any of it may be the last thing a process *)
(* does.  OrderLifecycle is about what the commits do; here one order, its *)
(* items and its table are enough.  What becomes of an entry of the stream *)
(* is in EventBus: here a screen hears each entry in order or skips to the *)
(* end.  The screens themselves are external: what the ids and ETags are   *)
(* for is what the docstrings of the two modules say.                      *)
(***************************************************************************)
EXTENDS Naturals, Sequences, FiniteSets, SequencesExt

CONSTANTS
  Items,      \* order_items of the order
  Screens,    \* browsers: "staff" ones list orders, the others are the diner's
  Staff,      \* Staff \subseteq Screens
  Requests    \* bound: requests, each made once

ASSUME OrderFeedAssumption == IsFiniteSet(Items)

VARIABLES
  db,         \* the committed rows: order status and sale, kitchen states, session, table
  facts,      \* all that was ever true of the committed rows
  req,        \* what each request has still to do
  stream,     \* the events, by version: the id XADD gave them
  screen      \* what each screen shows, and what it keeps to bring it up to date

vars == <<db, facts, req, stream, screen>>

Kitchen  == {"pendiente", "en_preparacion", "listo", "anulado"}
Cooking  == {"pendiente", "en_preparacion"}
Terminal == {"pagada", "cancelada"}
Statuses == {"ausente", "recibida", "abierta"} \cup Terminal

Row == [status : Statuses, sale : BOOLEAN, kitchen : [Items -> Kitchen],
        session : {"active", "closed"}, table : {"libre", "ocupada"}]

\* What an event may say.
FactsOf(d) ==
  {<<"item", i, d.kitchen[i]>> : i \in Items}
    \cup {<<"voided", i>> : i \in {j \in Items : d.kitchen[j] = "anulado"}}
    \cup {<<"table", d.table>>, <<"bill">>}
    \cup {f \in {<<"created">>, <<"confirmed">>, <<"cancelled">>, <<"paid">>, <<"closed">>} :
            /\ f = <<"created">>   => d.status # "ausente"
            /\ f = <<"confirmed">> => d.status \notin {"ausente", "recibida", "cancelada"}
            /\ f = <<"cancelled">> => d.status = "cancelada"
            /\ f = <<"paid">>      => d.sale
            /\ f = <<"closed">>    => d.session = "closed"}

Done == [stage |-> "done"]

TypeOK ==
  /\ db \in Row
  /\ FactsOf(db) \subseteq facts
  /\ \A r \in Requests : req[r].stage \in {"new", "working", "telling", "done"}
  /\ \A k \in 1 .. Len(stream) : stream[k][1] # "table" => stream[k][1] \in
       {"item", "voided", "bill", "created", "confirmed", "cancelled", "paid", "closed"}

-----------------------------------------------------------------------------
(* The events of core/events.py.  Those of items and tables say a state, which is read from *)
(* the row when the event is built. *)

OrderCreated         == <<"created">>
OrderConfirmed       == <<"confirmed">>
OrderCancelled       == <<"cancelled">>
PaymentCompleted     == <<"paid">>
SessionClosed        == <<"closed">>
BillChanged          == <<"bill">>
ItemVoided(i)        == <<"voided", i>>
ItemKitchenChanged(i, d) == <<"item", i, d.kitchen[i]>>
TableStatusChanged(d) == <<"table", d.table>>
TableFreed == <<"table", "libre">>
Reread == <<"table">>

Built(e, d) ==
  CASE e[1] = "item"  -> ItemKitchenChanged(e[2], d)
    [] e = Reread -> TableStatusChanged(d)
    [] OTHER -> e

-----------------------------------------------------------------------------
(* The handlers: what the service needs of the rows, what of it its row lock makes it find  *)
(* again, what it writes, and what the router announces afterwards.  "abierta" stands for   *)
(* abierta and bloqueada.                                                                   *)

InKitchen == {i \in Items : db.kitchen[i] \in Cooking}
Unlocked == TRUE

SubmitCart ==
  [needs |-> db.status = "ausente" /\ db.session = "active", locked |-> Unlocked,
   writes |-> [db EXCEPT !.status = "recibida"],
   says |-> <<OrderCreated>>]

ConfirmOrder ==
  [needs |-> db.status = "recibida" /\ ~db.sale, locked |-> db.status = "recibida",
   writes |-> [db EXCEPT !.status = "abierta"],
   says |-> <<OrderConfirmed, BillChanged>>]

PayOrder ==
  [needs |-> db.status = "abierta" /\ InKitchen = {}, locked |-> Unlocked,
   writes |-> [db EXCEPT !.status = "pagada", !.sale = TRUE],
   says |-> <<PaymentCompleted>>]

CheckoutAndSend ==
  [needs |-> db.status = "recibida" /\ ~db.sale, locked |-> db.status = "recibida",
   writes |-> [db EXCEPT !.status = "abierta", !.sale = TRUE],
   says |-> <<PaymentCompleted, OrderConfirmed, BillChanged>>]

CancelOrder ==
  [needs |-> db.status \in {"recibida", "abierta"} /\ ~db.sale, locked |-> Unlocked,
   writes |-> [db EXCEPT !.status = "cancelada"],
   says |-> <<OrderCancelled, BillChanged>>]

\* The diner's own, until the kitchen starts.
CancelMyOrder ==
  [CancelOrder EXCEPT !.needs = @ /\ (db.status = "recibida"
      \/ \A i \in Items : db.kitchen[i] \in {"pendiente", "anulado"})]

CloseSession ==
  [needs |-> db.session = "active" /\ db.status = "abierta" /\ ~db.sale /\ InKitchen = {},
   locked |-> db.session = "active",
   writes |-> [db EXCEPT !.status = "pagada", !.sale = TRUE, !.session = "closed",
                         !.table = "libre"],
   says |-> <<PaymentCompleted, SessionClosed, TableFreed>>]

ReleasePaidSession ==
  [needs |-> db.session = "active" /\ db.sale /\ InKitchen = {},
   locked |-> db.session = "active",
   writes |-> [db EXCEPT !.session = "closed", !.table = "libre"],
   says |-> <<SessionClosed, TableFreed>>]

ReleaseTable ==
  [needs |-> db.session = "active" /\ db.status \in Terminal \cup {"ausente"},
   locked |-> Unlocked,
   writes |-> [db EXCEPT !.session = "closed", !.table = "libre"],
   says |-> <<Reread, SessionClosed>>]

SetTableStatus ==
  [needs |-> TRUE, locked |-> Unlocked,
   writes |-> [db EXCEPT !.table = "ocupada"], says |-> <<Reread>>]

KitchenTransition(i, to) ==
  [needs |-> \/ db.kitchen[i] = "pendiente"
             \/ db.kitchen[i] = "en_preparacion" /\ to = "listo",
   locked |-> Unlocked,
   writes |-> [db EXCEPT !.kitchen[i] = to],
   says |-> <<<<"item", i>>>>]

VoidItem(i) ==
  [needs |-> db.kitchen[i] # "anulado" /\ db.status # "pagada" /\ ~db.sale,
   locked |-> Unlocked,
   writes |-> [db EXCEPT !.kitchen[i] = "anulado"],
   says |-> <<ItemVoided(i), BillChanged>>]

\* It names the items it found in the kitchen.
OrderReady(S) ==
  [needs |-> S = InKitchen /\ db.status \notin Terminal, locked |-> Unlocked,
   writes |-> [db EXCEPT !.kitchen = [i \in Items |-> IF i \in S THEN "listo" ELSE @[i]]],
   says |-> SetToSeq({<<"item", i>> : i \in S})]

Handlers ==
  {<<h>> : h \in {"submit", "confirm", "pay", "checkout", "cancel", "mine", "close", "release",
                  "free", "mark"}}
    \cup {<<"kitchen", i, to>> : i \in Items, to \in {"en_preparacion", "listo"}}
    \cup {<<"void", i>> : i \in Items}
    \cup {<<"ready", S>> : S \in SUBSET Items \ {{}}}

Handler(h) ==
  CASE h[1] = "submit"   -> SubmitCart
    [] h[1] = "confirm"  -> ConfirmOrder
    [] h[1] = "pay"      -> PayOrder
    [] h[1] = "checkout" -> CheckoutAndSend
    [] h[1] = "cancel"   -> CancelOrder
    [] h[1] = "mine"     -> CancelMyOrder
    [] h[1] = "close"    -> CloseSession
    [] h[1] = "release"  -> ReleasePaidSession
    [] h[1] = "free"     -> ReleaseTable
    [] h[1] = "mark"     -> SetTableStatus
    [] h[1] = "kitchen"  -> KitchenTransition(h[2], h[3])
    [] h[1] = "void"     -> VoidItem(h[2])
    [] h[1] = "ready"    -> OrderReady(h[2])

Commits == <<"commit">>

\* "Publicar siempre después del COMMIT".
Plan_TellFirst(h) == Append(Handler(h).says, Commits)
Plan(h) == <<Commits>> \o Handler(h).says

-----------------------------------------------------------------------------

Blank(c) == [shown |-> [order |-> <<"none">>, kitchen |-> [i \in Items |-> "none"]],
             cached |-> [order |-> <<"none">>, kitchen |-> [i \in Items |-> "none"]],
             etag |-> <<>>, version |-> [i \in Items |-> 0], heard |-> 0]

Init ==
  /\ db \in {[status |-> s, sale |-> FALSE, kitchen |-> [i \in Items |-> "pendiente"],
              session |-> "active", table |-> "ocupada"] : s \in {"ausente", "recibida", "abierta"}}
  /\ facts = FactsOf(db)
  /\ req = [r \in Requests |-> [stage |-> "new"]]
  /\ stream = <<>>
  /\ screen = [c \in Screens |-> Blank(c)]

\* A request arrives, and reads.
Begin(r, h) ==
  /\ req[r].stage = "new" /\ Handler(h).needs
  /\ req' = [req EXCEPT ![r] = [stage |-> "working", handler |-> h, plan |-> Plan(h)]]
  /\ UNCHANGED <<db, facts, stream, screen>>

Finished(q) == IF q.plan = <<>> THEN Done ELSE q

\* Its commit, unless what it finds under its lock no longer allows it.
Commit(r) ==
  LET q == req[r]
  IN  /\ q.stage = "working" /\ Head(q.plan) = Commits
      /\ IF Handler(q.handler).locked
         THEN /\ db' = Handler(q.handler).writes
              /\ req' = [req EXCEPT ![r] = Finished([q EXCEPT !.plan = Tail(q.plan)])]
         ELSE /\ req' = [req EXCEPT ![r] = Done] /\ UNCHANGED db
      /\ facts' = facts \cup FactsOf(db')
      /\ UNCHANGED <<stream, screen>>

\* The row an event is built from: as committed, under what its own transaction has written.
SeenBy(q) == IF \E k \in DOMAIN q.plan : q.plan[k] = Commits THEN Handler(q.handler).writes ELSE db

\* The event is built...
Build(r) ==
  LET q == req[r]
  IN  /\ q.stage = "working" /\ Head(q.plan) # Commits
      /\ req' = [req EXCEPT ![r].stage = "telling", ![r].plan[1] = Built(Head(q.plan), SeenBy(q))]
      /\ UNCHANGED <<db, facts, stream, screen>>

\* ... and published, or not: publish never raises.
Publish(r) ==
  LET q == req[r]
  IN  /\ q.stage = "telling"
      /\ stream' \in {stream, Append(stream, Head(q.plan))}
      /\ req' = [req EXCEPT ![r] =
                   Finished([q EXCEPT !.plan = Tail(q.plan), !.stage = "working"])]
      /\ UNCHANGED <<db, facts, screen>>

\* The process dies: what it has not committed, or not published, is lost.
Die(r) ==
  /\ req[r].stage \in {"working", "telling"}
  /\ req' = [req EXCEPT ![r] = Done]
  /\ UNCHANGED <<db, facts, stream, screen>>

-----------------------------------------------------------------------------
(* The screens. *)

\* Diners hear what is of their session; the table's board is the staff's.
Hears(c, e) == c \in Staff \/ e[1] # "table"

\* An entry arrives: a screen patches the item, unless it has a higher version of it.
Hear(c) ==
  LET s == screen[c]
      v == s.heard + 1
      e == stream[v]
      patches == Hears(c, e) /\ e[1] = "item" /\ v > s.version[e[2]]
                 /\ s.shown.order # <<"none">>
  IN  /\ v <= Len(stream)
      /\ screen' = [screen EXCEPT ![c] =
           IF patches
           THEN [s EXCEPT !.heard = v, !.version[e[2]] = v, !.shown.kitchen[e[2]] = e[3]]
           ELSE [s EXCEPT !.heard = v]]
      /\ UNCHANGED <<db, facts, req, stream>>

\* The connection is lost, and with it what was published meanwhile.
Skip(c) ==
  /\ screen[c].heard < Len(stream)
  /\ screen' = [screen EXCEPT ![c].heard = Len(stream)]
  /\ UNCHANGED <<db, facts, req, stream>>

\* list_orders hides from the staff an order that is paid and whose session is closed;
\* list_my_orders hides nothing.
Listed(c) ==
  /\ db.status # "ausente"
  /\ c \in Staff => ~(db.sale /\ db.session = "closed")

Page(c) ==
  IF Listed(c) THEN [order |-> <<db.status, db.sale>>, kitchen |-> db.kitchen]
  ELSE Blank(c).shown

\* weak_etag: a hash of the bytes that would be sent.
Etag_OfOrder(page) == page.order
Etag(page) == <<page.order, page.kitchen>>

\* json_or_304: a 304 sends the browser back to the body it has.
Poll(c) ==
  LET s == screen[c]
      body == IF s.etag = Etag(Page(c)) THEN s.cached ELSE Page(c)
  IN  /\ screen' = [screen EXCEPT ![c] =
                      [s EXCEPT !.shown = body, !.cached = body, !.etag = Etag(Page(c))]]
      /\ UNCHANGED <<db, facts, req, stream>>

-----------------------------------------------------------------------------

Next ==
  \/ \E r \in Requests :
       \/ \E h \in Handlers : Begin(r, h)
       \/ Commit(r) \/ Build(r) \/ Publish(r) \/ Die(r)
  \/ \E c \in Screens : Hear(c) \/ Skip(c) \/ Poll(c)

Spec == Init /\ [][Next]_vars

\* A screen goes on polling, whether or not it hears events.
Polling == \A c \in Screens : WF_vars(Poll(c))

FairSpec == Spec /\ Polling

-----------------------------------------------------------------------------
(* Properties. *)

\* No event announces what was never committed, whatever overlaps and wherever a process dies
\* (cart/router.py:158: "no puede haber salido un evento anunciando un pedido que no existe").
AnnouncedIsCommitted == \A k \in 1 .. Len(stream) : stream[k] \in facts

\* No screen ever shows an item in a state in which it never was, whatever it hears late, twice
\* or not at all between two polls.
ShownWasTrue ==
  \A c \in Screens : screen[c].shown.order # <<"none">> =>
    \A i \in Items : <<"item", i, screen[c].shown.kitchen[i]>> \in facts

\* A poll shows the rows of its instant, whether it is answered with a body or with a 304.
NoLying304 == [][\A c \in Screens : Poll(c) => screen'[c].shown = Page(c)]_vars

\* Whatever events are lost, or come out of order, a screen that polls ends up showing the
\* rows: no ETag answers 304 to a list that has changed (http_cache.py: "un 304 mentiroso").
ShowsTheTruth == \A c \in Screens : <>[](screen[c].shown = Page(c))
=============================================================================
