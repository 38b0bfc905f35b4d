------------------------------- MODULE MCLive -------------------------------
(***************************************************************************)
(* What comes about in the end, for TLC: the bus with one browser, the     *)
(* feed of one order on a screen of the staff, what Redis counts to turn   *)
(* requests away, and the jobs of two workers.  They share no state: a     *)
(* behaviour is of one of them, and the others stay as they began.         *)
(***************************************************************************)
EXTENDS OrderFeed, TLC

CONSTANTS staff, session, cashier, r1, r2, display

VARIABLES part, published, trimmed, reader, lastId, from, linger, phase, queue, dropped,
          maxSent, lastEvent, known, read, kind, counter, task, recent, lost,
          timer, lock, job, up, redis, overdue, deaths, outages

busVars   == <<published, trimmed, reader, lastId, from, linger, phase, queue, dropped,
               maxSent, lastEvent, known, read>>
quotaVars == <<kind, counter, task, recent, lost>>
jobVars   == <<timer, lock, job, up, redis, overdue, deaths, outages>>

\* The staff sees everything; some of it the table's session sees too.
B == INSTANCE EventBus WITH
  stream <- published, Clients <- {cashier}, Channels <- {staff, session},
  Listens <- [c \in {cashier} |-> {staff}], Announced <- {{staff}, {staff, session}},
  QueueSize <- 1, ReplayMax <- 2, MaxLen <- 2, MaxEvents <- 3

\* Two requests against the limits of an address and of a table, or for the slots of a session.
Q == INSTANCE Quotas WITH
  Tasks <- {1, 2}, Keys <- <<"ip", "table">>, Limit <- 2, Window <- 2,
  Lowest <- -1, Most <- 2

\* Two workers; of two tenants one is broken.
J == INSTANCE Scheduler WITH
  Workers <- {1, 2}, Tenants <- {1, 2}, Broken <- {2}, Interval <- 2, Lasts <- 1,
  MaxDeaths <- 1, MaxOutages <- 1

ASSUME J!WellFormed

MCInit == /\ part \in {"bus", "feed", "quotas", "jobs"}
          /\ Init /\ B!Init /\ Q!Init /\ J!Init
          /\ part # "feed" => db.status = "ausente"
          /\ part # "quotas" => kind = "slot"
          /\ part # "jobs" => timer = [w \in {1, 2} |-> 1]

MCNext ==
  /\ UNCHANGED part
  /\ \/ part = "bus" /\ B!Next /\ UNCHANGED <<vars, quotaVars, jobVars>>
     \/ part = "feed" /\ Next /\ UNCHANGED <<busVars, quotaVars, jobVars>>
     \/ part = "quotas" /\ Q!Next /\ UNCHANGED <<vars, busVars, jobVars>>
     \/ part = "jobs" /\ J!Next /\ UNCHANGED <<vars, busVars, quotaVars>>

\* The bus as it begins has nothing that must happen; the others have.
MCFairness ==
  /\ B!Fairness
  /\ WF_vars(part = "feed" /\ Poll(display))
  /\ WF_quotaVars(part = "quotas" /\ Q!Tick)
  /\ \A c \in {1, 2} : WF_quotaVars(part = "quotas" /\ Q!Expire(c))
  /\ WF_jobVars(part = "jobs" /\ J!Tick) /\ WF_jobVars(part = "jobs" /\ J!RedisReturns)
  /\ \A w \in {1, 2} :
       /\ WF_jobVars(part = "jobs" /\ J!Fire(w)) /\ WF_jobVars(part = "jobs" /\ J!Starts(w))
       /\ WF_jobVars(part = "jobs" /\ J!Finish(w))
       /\ WF_jobVars(part = "jobs" /\ \E t \in {1, 2} : J!Visit(w, t))

MCSpec == MCInit /\ [][MCNext]_<<vars, busVars, quotaVars, jobVars, part>> /\ MCFairness

-----------------------------------------------------------------------------

\* An event that a subscriber wants, published after what its reader has read, is sent to it
\* or it is told to reload (core/events.py, realtime/router.py).
Arrives == B!Arrives

\* A quota that is full comes to have room again, though everybody goes on trying, commands of
\* Redis fail and processes die, except a key that has lost its EXPIRE (rate_limit.py:40,
\* realtime/router.py:70: what that one does is in MCQuotas); and what is overdue in a tenant is
\* done, whoever dies with the lock and whichever other tenant is broken (scheduler.py:203, 278).
HealsInTheEnd == Q!RoomAgain /\ J!OverdueIsSwept
=============================================================================
