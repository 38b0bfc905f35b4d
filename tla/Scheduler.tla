------------------------------- MODULE Scheduler -------------------------------
(***************************************************************************)
(* The jobs that run by themselves (core/scheduler.py): the sweep of       *)
(* forgotten sessions, the expiry of promotions and the purge of           *)
(* notifications.  Every worker has a timer of its own; when it fires, the *)
(* worker takes a lock of Redis, which nobody releases and which dies by   *)
(* itself, and goes through the tenants, each in its own transaction.      *)
(*                                                                         *)
(* Workers die and start again, Redis may not answer, and a tenant may be  *)
(* broken.  What a job does to one tenant is TableSessions.Sweep,          *)
(* Promotions' expiry or Notices.Purges; here it is only done or not.      *)
(***************************************************************************)
EXTENDS Integers, FiniteSets

CONSTANTS
  Workers,
  Tenants, Broken,    \* those whose transaction always fails
  Interval,           \* of the timers
  Lasts,              \* of the lock: half the interval, or an hour of the day
  MaxDeaths, MaxOutages

WellFormed == Lasts \in 1 .. Interval - 1 /\ Broken \subseteq Tenants

VARIABLES
  timer,      \* timer[w]: ticks to go
  lock,       \* what is left of the lock's life, 0 when there is none
  job,        \* job[w]: tenants left, and those that were overdue when it began
  up,         \* workers that are running
  redis,      \* Redis answers
  overdue,    \* tenants with something to be done
  deaths, outages

vars == <<timer, lock, job, up, redis, overdue, deaths, outages>>

NoJob == [on |-> FALSE, left |-> {}, cut |-> {}]

TypeOK ==
  /\ timer \in [Workers -> 0 .. Interval] /\ lock \in 0 .. Interval
  /\ \A w \in Workers : job[w].left \subseteq Tenants /\ job[w].cut \subseteq Tenants
  /\ up \subseteq Workers /\ overdue \subseteq Tenants
  /\ deaths \in 0 .. MaxDeaths /\ outages \in 0 .. MaxOutages

\* The workers did not start together.
Init ==
  /\ timer \in [Workers -> 1 .. Interval] /\ lock = 0
  /\ job = [w \in Workers |-> NoJob] /\ up = Workers /\ redis = TRUE
  /\ overdue = {} /\ deaths = 0 /\ outages = 0

-----------------------------------------------------------------------------

\* SET NX EX.
Life_Forever == Interval + 1
Life == Lasts

\* _run_with_lock: nothing is done when another has the lock, when Redis does not answer, or
\* when the worker is still at it (max_instances).
Fire(w) ==
  /\ w \in up /\ timer[w] = 0 /\ timer' = [timer EXCEPT ![w] = Interval]
  /\ IF redis /\ lock = 0 /\ ~job[w].on
     THEN /\ lock' = Life
          /\ job' = [job EXCEPT ![w] = [on |-> TRUE, left |-> Tenants, cut |-> overdue]]
     ELSE UNCHANGED <<lock, job>>
  /\ UNCHANGED <<up, redis, overdue, deaths, outages>>

\* A tenant that fails is logged, and the others follow.
Rest_Aborted(rest, t) == IF t \in Broken THEN {} ELSE rest
Rest(rest, t) == rest

\* sweep_orphan_sessions, expire_promotions, purge_expired_notifications: one tenant.
Visit(w, t) ==
  /\ job[w].on /\ t \in job[w].left
  /\ job' = [job EXCEPT ![w].left = Rest(@ \ {t}, t)]
  /\ \/ t \in Broken /\ UNCHANGED overdue
     \/ t \notin Broken /\ overdue' = overdue \ {t}
     \/ t \notin Broken \cup job[w].cut /\ UNCHANGED overdue
  /\ UNCHANGED <<timer, lock, up, redis, deaths, outages>>

Finish(w) ==
  /\ job[w].on /\ job[w].left = {} /\ job' = [job EXCEPT ![w] = NoJob]
  /\ UNCHANGED <<timer, lock, up, redis, overdue, deaths, outages>>

\* Something new is overdue: not of what a job that began before was looking for.
Falls(t) ==
  /\ overdue' = overdue \cup {t}
  /\ t \notin overdue
  /\ job' = [w \in Workers |-> [job[w] EXCEPT !.cut = @ \ {t}]]
  /\ UNCHANGED <<timer, lock, up, redis, deaths, outages>>

Dies(w) ==
  /\ w \in up /\ deaths < MaxDeaths /\ deaths' = deaths + 1
  /\ up' = up \ {w} /\ job' = [job EXCEPT ![w] = NoJob]
  /\ UNCHANGED <<timer, lock, redis, overdue, outages>>

\* start_scheduler.
Starts(w) ==
  /\ w \notin up /\ up' = up \cup {w} /\ timer' = [timer EXCEPT ![w] = Interval]
  /\ UNCHANGED <<lock, job, redis, overdue, deaths, outages>>

RedisFails ==
  /\ redis /\ outages < MaxOutages /\ redis' = FALSE /\ outages' = outages + 1
  /\ UNCHANGED <<timer, lock, job, up, overdue, deaths>>

RedisReturns ==
  /\ ~redis /\ redis' = TRUE
  /\ UNCHANGED <<timer, lock, job, up, overdue, deaths, outages>>

\* A timer that is due fires before time goes on.
Tick ==
  /\ \A w \in up : timer[w] > 0
  /\ timer' = [w \in Workers |-> IF w \in up THEN timer[w] - 1 ELSE timer[w]]
  /\ lock' = IF lock \in 1 .. Interval THEN lock - 1 ELSE lock
  /\ UNCHANGED <<job, up, redis, overdue, deaths, outages>>

Next ==
  \/ \E w \in Workers :
       Fire(w) \/ (\E t \in Tenants : Visit(w, t)) \/ Finish(w) \/ Dies(w) \/ Starts(w)
  \/ \E t \in Tenants : Falls(t)
  \/ RedisFails \/ RedisReturns \/ Tick

\* Time goes on; a worker that runs does what it has to, and is started again when it dies;
\* Redis comes back.
Fairness ==
  /\ WF_vars(Tick) /\ WF_vars(RedisReturns)
  /\ \A w \in Workers : /\ WF_vars(Fire(w)) /\ WF_vars(Starts(w)) /\ WF_vars(Finish(w))
                        /\ WF_vars(\E t \in Tenants : Visit(w, t))

Spec == Init /\ [][Next]_vars /\ Fairness

-----------------------------------------------------------------------------
(* Properties. *)

\* What is overdue is done in the end, whoever dies with the lock and whichever tenant is broken
\* (scheduler.py:203: "Un tenant roto no debe impedir el barrido de los demás", :278: "si el
\* proceso muere a medias, el siguiente ciclo lo retoma").
OverdueIsSwept == \A t \in Tenants \ Broken : t \in overdue ~> t \notin overdue
=============================================================================
