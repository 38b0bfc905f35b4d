-------------------------------- MODULE Quotas --------------------------------
(***************************************************************************)
(* What Redis counts to turn people away: the requests of a client or of a *)
(* table in a fixed window (core/rate_limit.py, enforce), the connections  *)
(* of a table's session (api/v1/realtime/router.py, _acquire_slot), and    *)
(* the reset links of an account in a sliding window (rate_limit.py,       *)
(* enforce_sliding_window).  A command of Redis is atomic; between two of  *)
(* them others get in, and a process may die.  Any command may fail, done  *)
(* or not done: then nobody is turned away (fail-open).                    *)
(*                                                                         *)
(* Time is what the keys' lives and the ages of entries count in ticks.    *)
(***************************************************************************)
EXTENDS Integers, Sequences, Functions

CONSTANTS
  Tasks,      \* requests of one process
  Keys,       \* of the fixed window: the client's address, the table
  Limit,      \* RATE_LIMIT_PER_..., REALTIME_MAX_CONN_PER_SESSION, PASSWORD_RESET_MAX_REQUESTS
  Window,     \* RATE_LIMIT_WINDOW_SECONDS, and how long a slot's key lives
  Lowest,     \* bound: how far below zero a counter is followed
  Most        \* bound: how far above the limit

VARIABLES
  kind,       \* which of the three this behaviour is about
  counter,    \* counter[k]: its value and what is left of its life, 0 for no expiry
  task,       \* task[c]: where it is, and at which key
  recent,     \* recent[a]: entries of the sorted set that are a - 1 ticks old
  lost        \* history: keys whose EXPIRE failed, or died with its process, and has not been
              \* made up for since

vars == <<kind, counter, task, recent, lost>>

Kinds  == {"slot", "window", "sliding"}
Absent == [value |-> 0, life |-> 0, here |-> FALSE]
KeysOf(k) == IF k = "slot" THEN <<"slot">> ELSE Keys
AllKeys == {"slot"} \cup {Keys[i] : i \in DOMAIN Keys}
Idle == [at |-> "idle", key |-> 1]

TypeOK ==
  /\ kind \in Kinds
  /\ \A k \in AllKeys : /\ counter[k].value \in Int
                        /\ counter[k].life \in 0 .. Window
                        /\ ~counter[k].here => counter[k] = Absent
  /\ \A c \in Tasks : task[c].at \in {"idle", "first", "over", "in", "adding"}
  /\ recent \in [1 .. Window -> Nat]
  /\ lost \subseteq AllKeys

Init ==
  /\ kind \in Kinds
  /\ counter = [k \in AllKeys |-> Absent]
  /\ task = [c \in Tasks |-> Idle]
  /\ recent = [a \in 1 .. Window |-> 0]
  /\ lost = {}

Key(c) == KeysOf(kind)[task[c].key]
Value(k) == counter[k].value

Add(k, n) == [counter EXCEPT ![k].value = @ + n, ![k].here = TRUE]
Incremented(k) == IF Value(k) >= Limit + Most THEN counter ELSE Add(k, 1)
Expiring(k) == IF counter[k].here THEN [counter EXCEPT ![k].life = Window] ELSE counter

\* A request that is let in is served at once, a connection stays.
LetIn == IF kind = "slot" THEN [Idle EXCEPT !.at = "in"] ELSE Idle

\* On to the next key, or in.
Passes(c) ==
  IF task[c].key < Len(KeysOf(kind)) THEN [at |-> "idle", key |-> task[c].key + 1] ELSE LetIn

\* "El EXPIRE se pone solo en la primera, así la ventana ... no se renueva".
IsFirst_Always(n) == TRUE
IsFirst(n) == n = 1

\* _hit, and the first half of _acquire_slot: INCR...
Incr(c) ==
  /\ kind # "sliding" /\ task[c].at = "idle"
  /\ LET n == Value(Key(c)) + 1
     IN  /\ counter' = Incremented(Key(c))
         /\ task' = [task EXCEPT ![c] =
              CASE IsFirst(n) -> [@ EXCEPT !.at = "first"]
                [] ~IsFirst(n) /\ n > Limit -> [@ EXCEPT !.at = "over"]
                [] OTHER -> Passes(c)]
  /\ UNCHANGED <<kind, recent, lost>>

\* ... and EXPIRE, which does nothing to a key that is gone.  The count was 1, whatever it is now.
Expire(c) ==
  /\ task[c].at = "first"
  /\ counter' = Expiring(Key(c)) /\ lost' = lost \ {Key(c)}
  /\ task' = [task EXCEPT ![c] = IF 1 > Limit THEN [@ EXCEPT !.at = "over"] ELSE Passes(c)]
  /\ UNCHANGED <<kind, recent>>

\* Turned away: a slot is given back, a hit stays counted.
TurnedAway(c) ==
  /\ task[c].at = "over"
  /\ counter' = IF kind = "slot" THEN Add("slot", -1) ELSE counter
  /\ task' = [task EXCEPT ![c] = Idle]
  /\ UNCHANGED <<kind, recent, lost>>

\* _release_slot; of a key that is gone the DECR makes one of -1.
Release(c) ==
  /\ kind = "slot" /\ task[c].at = "in" /\ Value("slot") >= Lowest
  /\ counter' = Add("slot", -1)
  /\ task' = [task EXCEPT ![c] = Idle]
  /\ UNCHANGED <<kind, recent, lost>>

-----------------------------------------------------------------------------
(* Redis fails one of these commands, done or not: the except of enforce, of _acquire_slot and *)
(* of _release_slot.  The request skips the keys that are left.                                *)

\* A key now without a life, whose EXPIRE nobody will try again.
Orphaned(K) == lost' = lost \cup {k \in K : counter'[k].here /\ counter'[k].life = 0}

IncrFails(c) ==
  /\ kind # "sliding" /\ task[c].at = "idle"
  /\ LET k == Key(c)
     IN  \/ UNCHANGED <<counter, lost>>
         \/ counter' = Incremented(k) /\ Orphaned(IF Value(k) = 0 THEN {k} ELSE {})
  /\ task' = [task EXCEPT ![c] = LetIn]
  /\ UNCHANGED <<kind, recent>>

ExpireFails(c) ==
  /\ task[c].at = "first"
  /\ counter' \in {counter, Expiring(Key(c))} /\ Orphaned({Key(c)})
  /\ task' = [task EXCEPT ![c] = LetIn]
  /\ UNCHANGED <<kind, recent>>

\* Let in by the DECR that was to turn it away.
TurnedAwayFails(c) ==
  /\ kind = "slot" /\ task[c].at = "over"
  /\ counter' \in {counter, Add("slot", -1)}
  /\ task' = [task EXCEPT ![c] = LetIn]
  /\ UNCHANGED <<kind, recent, lost>>

ReleaseFails(c) ==
  /\ kind = "slot" /\ task[c].at = "in"
  /\ task' = [task EXCEPT ![c] = Idle]
  /\ UNCHANGED <<kind, counter, recent, lost>>

-----------------------------------------------------------------------------
(* The sliding window. *)

Recent == FoldFunction(+, 0, recent)

Adds_Blocked == TRUE
Adds == Recent < Limit

\* ZREMRANGEBYSCORE and ZCARD: what is too old is gone.  When they fail the link is sent, and
\* nothing changes.
Card(c) ==
  /\ kind = "sliding" /\ task[c].at = "idle"
  /\ task' = [task EXCEPT ![c] = [Idle EXCEPT !.at = IF Adds THEN "adding" ELSE "idle"]]
  /\ UNCHANGED <<kind, counter, recent, lost>>

\* ZADD and EXPIRE, in a transaction of their own; the link is sent even if that fails.
ZAdd(c) ==
  /\ task[c].at = "adding" /\ recent[1] < Limit + Most
  /\ recent' \in {recent, [recent EXCEPT ![1] = @ + 1]}
  /\ task' = [task EXCEPT ![c] = Idle]
  /\ UNCHANGED <<kind, counter, lost>>

-----------------------------------------------------------------------------

Aged(k) ==
  IF counter[k].life = 1 THEN Absent
  ELSE [counter[k] EXCEPT !.life = IF @ = 0 THEN 0 ELSE @ - 1]

Tick ==
  /\ counter' = [k \in AllKeys |-> Aged(k)]
  /\ recent' = [a \in 1 .. Window |-> IF a = 1 THEN 0 ELSE recent[a - 1]]
  /\ UNCHANGED <<kind, task, lost>>

\* The process dies: connections end without a release, requests half way, some of them between
\* an INCR and its EXPIRE.
Dies ==
  /\ task' = [c \in Tasks |-> Idle]
  /\ UNCHANGED counter /\ Orphaned({Key(c) : c \in {d \in Tasks : task[d].at = "first"}})
  /\ UNCHANGED <<kind, recent>>

Answered == \E c \in Tasks :
  Incr(c) \/ Expire(c) \/ TurnedAway(c) \/ Release(c) \/ Card(c) \/ ZAdd(c)

Unanswered == \E c \in Tasks :
  IncrFails(c) \/ ExpireFails(c) \/ TurnedAwayFails(c) \/ ReleaseFails(c)

Next == Answered \/ Unanswered \/ Tick \/ Dies

Spec == Init /\ [][Next]_vars

\* Time passes, and a request half way goes on to its EXPIRE, unless it fails or dies there.
Fairness == WF_vars(Tick) /\ \A c \in Tasks : WF_vars(Expire(c))

FairSpec == Spec /\ Fairness

-----------------------------------------------------------------------------
(* Properties. *)

HasRoom(k) == Value(k) < Limit

\* What is full comes to have room again, though everybody goes on trying, connections are lost
\* without a release, processes die and commands fail: unless its EXPIRE was lost.  A key that
\* has lost its EXPIRE keeps it lost until its value is back at 0, and may be full for ever.
RoomAgain == /\ \A k \in AllKeys : []<>(HasRoom(k) \/ k \in lost)
             /\ []<>(Recent < Limit)

\* What _acquire_slot says of its EXPIRE: "si un proceso muere sin liberar su hueco, el contador
\* caduca solo en vez de dejar la mesa bloqueada" (realtime/router.py:62-64).
CounterHeals == []<>HasRoom("slot")
=============================================================================
