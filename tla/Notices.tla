-------------------------------- MODULE Notices --------------------------------
(***************************************************************************)
(* The staff's notifications (core/notifications, api/v1/notifications):   *)
(* what was sold or ordered is committed first; then the request that did  *)
(* it stores a notice, in a transaction of its own, and hands it to the    *)
(* channels that are enabled.  It may die anywhere, and no channel need    *)
(* answer.  A screen that was away asks for what is newer than a notice it *)
(* has, a page at a time; the nightly purge deletes what is too old.       *)
(*                                                                         *)
(* A notice's created_at is when its transaction began: `order` numbers    *)
(* those instants.  Who attends a notice, and the texts, are left out.     *)
(***************************************************************************)
EXTENDS Integers, FiniteSets

CONSTANTS
  Facts,      \* orders created and payments completed
  Channels,   \* _CHANNELS without the browsers' push
  Push,
  Enabled,    \* Enabled[f]: the channels enabled for its type of event
  Devices,    \* push_subscriptions
  Limit,      \* of a page
  MaxPurged,  \* bound: notices deleted
  None

WellFormed == /\ Enabled \in [Facts -> SUBSET (Channels \cup {Push})]
              /\ IsFiniteSet(Facts) /\ None \notin Facts /\ Limit \in Nat \ {0}

VARIABLES
  job,        \* job[f]: the request that announces f
  order,      \* order[f]: created_at, 0 before its transaction
  row,        \* the notices of the table
  purged,     \* those that were deleted
  before,     \* history, before[f]: notices stored when its transaction began
  active,     \* subscriptions that are active
  screen      \* a screen that recovers: the notice it asks from, and, history, what it is owed

vars == <<job, order, row, purged, before, active, screen>>

NoJob  == [at |-> "fact", todo |-> {}, left |-> {}, gone |-> {}, tried |-> {}, due |-> {}]
Away   == [ref |-> None, owed |-> {}]

TypeOK ==
  /\ \A f \in Facts : /\ job[f].at \in {"fact", "open", "stored", "push", "done", "dead"}
                      /\ job[f].todo \subseteq Enabled[f] /\ job[f].left \subseteq Devices
  /\ order \in [Facts -> 0 .. Cardinality(Facts)]
  /\ row \subseteq Facts /\ purged \subseteq Facts /\ active \subseteq Devices
  /\ before \in [Facts -> SUBSET Facts]
  /\ screen.ref \in Facts \cup {None} /\ screen.owed \subseteq Facts

Init ==
  /\ job = [f \in Facts |-> NoJob] /\ order = [f \in Facts |-> 0]
  /\ row = {} /\ purged = {} /\ before = [f \in Facts |-> {}]
  /\ active = Devices /\ screen = Away

Stored == row \cup purged

-----------------------------------------------------------------------------
(* Dispatching. *)

\* The transaction of the notice begins, after the commit of the fact.
Opens(f) ==
  /\ job[f].at = "fact" /\ job' = [job EXCEPT ![f].at = "open"]
  /\ order' = [order EXCEPT ![f] = 1 + Cardinality({g \in Facts : order[g] # 0})]
  /\ before' = [before EXCEPT ![f] = Stored]
  /\ UNCHANGED <<row, purged, active, screen>>

\* _dispatch inserts it, and commits.
Stores(f) ==
  /\ job[f].at = "open"
  /\ job' = [job EXCEPT ![f].at = "stored", ![f].todo = Enabled[f]]
  /\ row' = row \cup {f}
  /\ UNCHANGED <<order, purged, before, active, screen>>

\* A failure is logged, and what is left goes on.
Left_Stops(rest, failed) == IF failed THEN {} ELSE rest
Left(rest, failed) == rest

\* A channel that publishes, or fails to.
Tells(f, c) ==
  /\ job[f].at = "stored" /\ c \in job[f].todo \ {Push}
  /\ \E failed \in BOOLEAN :
       job' = [job EXCEPT ![f].todo = Left(@ \ {c}, failed), ![f].tried = @ \cup {c}]
  /\ UNCHANGED <<order, row, purged, before, active, screen>>

\* BrowserPushChannel: the active subscriptions are read,
PushBegins(f) ==
  /\ job[f].at = "stored" /\ Push \in job[f].todo
  /\ job' = [job EXCEPT ![f].at = "push", ![f].todo = @ \ {Push}, ![f].tried = @ \cup {Push},
                         ![f].left = active, ![f].due = active]
  /\ UNCHANGED <<order, row, purged, before, active, screen>>

\* each is tried: the service takes it, knows it no longer (404, 410), or fails,
PushesTo(f, d) ==
  /\ job[f].at = "push" /\ d \in job[f].left
  /\ \E answer \in {"taken", "gone", "fails"} :
       job' = [job EXCEPT ![f].left = Left(@ \ {d}, answer = "fails"), ![f].tried = @ \cup {d},
                          ![f].gone = IF answer = "gone" THEN @ \cup {d} ELSE @]
  /\ UNCHANGED <<order, row, purged, before, active, screen>>

\* and those it knows no longer are switched off.
PushEnds(f) ==
  /\ job[f].at = "push" /\ job[f].left = {}
  /\ active' = active \ job[f].gone
  /\ job' = [job EXCEPT ![f].at = "stored"]
  /\ UNCHANGED <<order, row, purged, before, screen>>

Handed(f) == job[f].at = "stored" /\ job[f].todo = {}
Ends(f) ==
  /\ Handed(f) /\ job' = [job EXCEPT ![f] = [NoJob EXCEPT !.at = "done"]]
  /\ UNCHANGED <<order, row, purged, before, active, screen>>

\* The process dies, or the insertion fails; the fact remains.
Dies(f) ==
  /\ job[f].at \notin {"fact", "done", "dead"}
  /\ job' = [job EXCEPT ![f] = [NoJob EXCEPT !.at = "dead"]]
  /\ UNCHANGED <<order, row, purged, before, active, screen>>

\* create_push_subscription and delete_push_subscription.
Registers(d) ==
  /\ active' = active \cup {d} /\ UNCHANGED <<job, order, row, purged, before, screen>>
Unregisters(d) ==
  /\ active' = active \ {d} /\ UNCHANGED <<job, order, row, purged, before, screen>>

\* purge_expired_notifications: each notice has the retention there was when it was stored.
Purges(S) ==
  /\ Cardinality(purged \cup S) <= MaxPurged
  /\ row' = row \ S /\ purged' = purged \cup S
  /\ UNCHANGED <<job, order, before, active, screen>>

-----------------------------------------------------------------------------
(* Recovering: list_notifications with after_id. *)

\* Newer than the reference, or everything if it was purged; oldest first, up to the limit.
Newer(ref) == {n \in row : ref \in row => order[n] > order[ref]}
PageOf_NewestFirst(S) == {n \in S : Cardinality({m \in S : order[m] > order[n]}) < Limit}
PageOf(S) == {n \in S : Cardinality({m \in S : order[m] < order[n]}) < Limit}
LastOf(page) == CHOOSE n \in page : \A m \in page : order[m] <= order[n]

\* The screen has a notice it was told of, or was given: it is owed what was dispatched since.
Returns(x) ==
  /\ screen = Away /\ x \in Stored
  /\ screen' = [ref |-> x, owed |-> {n \in row : x \in before[n]}]
  /\ UNCHANGED <<job, order, row, purged, before, active>>

\* It asks again from the last of a page that was full.
Reads ==
  LET page == PageOf(Newer(screen.ref))
  IN  /\ screen # Away
      /\ screen' = IF Cardinality(page) = Limit
                   THEN [ref |-> LastOf(page), owed |-> screen.owed \ page] ELSE Away
      /\ UNCHANGED <<job, order, row, purged, before, active>>

-----------------------------------------------------------------------------

Next ==
  \/ \E f \in Facts :
       \/ Opens(f) \/ Stores(f) \/ PushBegins(f) \/ PushEnds(f) \/ Ends(f) \/ Dies(f)
       \/ \E c \in Channels : Tells(f, c)
       \/ \E d \in Devices : PushesTo(f, d)
       \/ Returns(f)
  \/ \E d \in Devices : Registers(d) \/ Unregisters(d)
  \/ \E S \in SUBSET row : Purges(S)
  \/ Reads

Spec == Init /\ [][Next]_vars

-----------------------------------------------------------------------------
(* Properties. *)

\* No channel that fails, and no browser, keeps a notice from the others (dispatch.py:88: "un
\* canal caído no puede tumbar la operación de negocio").
EveryChannelTried ==
  \A f \in Facts : Handed(f) => job[f].tried = Enabled[f] \cup job[f].due

\* A screen that has read the last page has every notice that was there when it came back, and
\* was dispatched after the one it started from had been stored, but for those purged meanwhile.
Recovered ==
  screen # Away /\ screen' = Away => screen.owed \cap row \subseteq PageOf(Newer(screen.ref))

NoticesReach == [][EveryChannelTried' /\ Recovered]_vars

\* What they rest on: a channel or a browser is still to be tried until it has been; notices are
\* dated one after the other, each after those stored before it began; and what a screen is
\* still owed is newer than where it has got to.
JobRow == [at : {"fact", "open", "stored", "push", "done", "dead"},
           todo : SUBSET (Channels \cup {Push}), left : SUBSET Devices,
           gone : SUBSET Devices, tried : SUBSET (Channels \cup {Push} \cup Devices),
           due : SUBSET Devices]

ToldOrTrying(j, enabled) ==
  /\ j.at \in {"fact", "open"} => j = [NoJob EXCEPT !.at = j.at]
  /\ j.at \in {"stored", "push"} => j.tried \cup j.todo \cup j.left = enabled \cup j.due
  /\ j.at = "stored" => j.left = {}
  /\ Push \in j.todo => j.due = {}

Dated == {f \in Facts : order[f] # 0}

InOrder ==
  /\ order \in [Facts -> Nat] /\ \A f \in Facts : order[f] <= Cardinality(Dated)
  /\ \A f, g \in Dated : order[f] = order[g] => f = g
  /\ \A f \in Facts : /\ order[f] = 0 <=> job[f].at = "fact"
                      /\ f \in Stored => job[f].at \notin {"fact", "open"}
                      /\ \A g \in before[f] : g \in Dated /\ order[g] < order[f]
  /\ Stored \subseteq Facts /\ before \in [Facts -> SUBSET Facts]

Owed ==
  screen # Away =>
    /\ screen.ref \in Stored /\ screen.owed \subseteq Stored
    /\ \A n \in screen.owed \cap row : order[screen.ref] < order[n]

IInv ==
  /\ job \in [Facts -> JobRow] /\ \A f \in Facts : ToldOrTrying(job[f], Enabled[f])
  /\ active \subseteq Devices /\ InOrder /\ Owed
  /\ screen.ref \in Facts \cup {None}
=============================================================================
