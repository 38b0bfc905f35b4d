------------------------------ MODULE EventBus ------------------------------
(***************************************************************************)
(* Real-time events: from the Redis stream of a tenant to its browsers.    *)
(*                                                                         *)
(* app/core/event_bus.py runs one reader per process and tenant: it XREADs *)
(* the stream and fans each entry out to the queues of the process's       *)
(* subscribers.  app/api/v1/realtime/router.py serves one SSE connection:  *)
(* it subscribes, replays what came after the browser's Last-Event-ID, and *)
(* goes on with the queue.  This module is one tenant in one process.      *)
(*                                                                         *)
(* The id of an entry is its place in the stream (Redis gives them out in  *)
(* increasing order), its payload is abstracted to its channels.  The      *)
(* asyncio lock is never held over an await, so subscribe, unsubscribe and *)
(* the end of the linger are single steps.  An event that publish() could  *)
(* not XADD is not in the stream, and is out of this module's sight.       *)
(*                                                                         *)
(* An operator named X_Variant is X with a plausible bug: no action uses   *)
(* it; put in the place of X, it breaks the property README.md names.      *)
(***************************************************************************)
EXTENDS Integers, Sequences, FiniteSets, SequencesExt

CONSTANTS
  Clients,     \* browsers
  Channels,    \* the staff's channel, and one per table session
  Listens,     \* Listens[c]: the channels of c's token or ticket
  Announced,   \* the sets of channels that events are published to
  QueueSize,   \* REALTIME_QUEUE_SIZE
  ReplayMax,   \* REALTIME_REPLAY_MAX
  MaxLen,      \* REALTIME_STREAM_MAXLEN
  MaxEvents    \* bound: entries published

ASSUME EventBusAssumption ==
  /\ Listens \in [Clients -> SUBSET Channels]
  /\ Announced \subseteq SUBSET Channels
  /\ {QueueSize, ReplayMax, MaxLen, MaxEvents} \subseteq Nat \ {0}

VARIABLES
  stream,     \* stream[i]: the channels of entry i
  trimmed,    \* entries 1 .. trimmed have fallen out of the retention
  reader,     \* off, ready (about to XREAD) or reading (blocked in XREAD)
  lastId,     \* the id the reader asks after: "$" is only what is new
  from,       \* the id that "$" stood for when Redis got the XREAD
  linger,     \* the reader is about to be stopped, for want of subscribers
  phase,      \* phase[c]: away, replay, loop (top of the loop) or waiting (queue.get)
  queue,      \* queue[c]: ids
  dropped,    \* dropped[c]: its queue was full once
  maxSent,    \* maxSent[c]: the last id sent on this connection, 0 for None
  lastEvent,  \* lastEvent[c]: the browser's Last-Event-ID, 0 when it has none
  known,      \* known[c]: what c has learned, by a frame or by a reload over REST
  read        \* the entries some reader has fanned out

readerVars == <<reader, lastId, from>>
clientVars == <<phase, queue, dropped, maxSent, lastEvent, known>>
vars == <<stream, trimmed, readerVars, linger, clientVars, read>>

Latest == 0
Ids    == 1 .. Len(stream)
Wants(c, i) == Listens[c] \cap stream[i] # {}
subs   == {c \in Clients : phase[c] # "away"}

Phases == {"away", "replay", "loop", "waiting"}

TypeOK ==
  /\ stream \in Seq(Announced) /\ trimmed \in 0 .. Len(stream)
  /\ reader \in {"off", "ready", "reading"} /\ linger \in BOOLEAN
  /\ lastId \in 0 .. Len(stream) /\ from \in 0 .. Len(stream)
  /\ phase \in [Clients -> Phases]
  /\ queue \in [Clients -> Seq(Ids)] /\ \A c \in Clients : Len(queue[c]) <= QueueSize
  /\ dropped \in [Clients -> BOOLEAN]
  /\ maxSent \in [Clients -> 0 .. Len(stream)]
  /\ lastEvent \in [Clients -> 0 .. Len(stream)]
  /\ known \in [Clients -> SUBSET Ids] /\ read \subseteq Ids

Init ==
  /\ stream = <<>> /\ trimmed = 0
  /\ reader = "off" /\ lastId = Latest /\ from = 0 /\ linger = FALSE
  /\ phase = [c \in Clients |-> "away"]
  /\ queue = [c \in Clients |-> <<>>]
  /\ dropped = [c \in Clients |-> FALSE]
  /\ maxSent = [c \in Clients |-> 0]
  /\ lastEvent = [c \in Clients |-> 0]
  /\ known = [c \in Clients |-> {}]
  /\ read = {}

-----------------------------------------------------------------------------
(* The stream. *)

\* publish: XADD with an approximate MAXLEN, which may keep more than it must.
Publish(ch) ==
  /\ Len(stream) < MaxEvents
  /\ stream' = Append(stream, ch)
  /\ trimmed' \in {trimmed} \cup (trimmed .. Len(stream) + 1 - MaxLen)
  /\ UNCHANGED <<readerVars, linger, clientVars, read>>

-----------------------------------------------------------------------------
(* The reader, _read_loop. *)

AsksAfter_AlwaysNew == Len(stream)
AsksAfter == IF lastId = Latest THEN Len(stream) ELSE lastId

\* Redis gets the XREAD: "$" is the last entry of that moment.
XRead ==
  /\ reader = "ready"
  /\ reader' = "reading"
  /\ from' = AsksAfter
  /\ UNCHANGED <<stream, trimmed, lastId, linger, clientVars, read>>

Least(m, n) == IF m < n THEN m ELSE n

\* Those of S that c listens to, in the order of the stream.
Wanted(c, S) ==
  LET T == {i \in S : Wants(c, i)}
  IN  [n \in 1 .. Cardinality(T) |-> CHOOSE i \in T : Cardinality({j \in T : j <= i}) = n]

Room(c) == QueueSize - Len(queue[c])

\* _fanout of the entries of S, one after the other: a full queue drops its subscriber.
Fanout(S) ==
  LET Fed(c) == c \in subs /\ ~dropped[c]
      All(c) == Wanted(c, S)
  IN  /\ queue' = [c \in Clients |->
           IF Fed(c) THEN queue[c] \o SubSeq(All(c), 1, Least(Room(c), Len(All(c))))
           ELSE queue[c]]
      /\ dropped' = [c \in Clients |->
           dropped[c] \/ (Fed(c) /\ Len(All(c)) > Room(c))]
      /\ read' = read \cup S

\* The answer has what came after `from`, up to some k, and was not trimmed meanwhile.
Entries ==
  /\ reader = "reading"
  /\ \E k \in from + 1 .. Len(stream) :
       /\ k > trimmed
       /\ Fanout({i \in from + 1 .. k : i > trimmed})
       /\ lastId' = k
  /\ reader' = "ready" /\ from' = 0
  /\ UNCHANGED <<stream, trimmed, linger, phase, maxSent, lastEvent, known>>

\* BLOCK expires with nothing new: the loop asks again, after the same last_id.
BlockExpires ==
  /\ reader = "reading" /\ from = Len(stream)
  /\ reader' = "ready" /\ from' = 0
  /\ UNCHANGED <<stream, trimmed, lastId, linger, clientVars, read>>

\* XREAD raises: a warning, a second's sleep, and again.
XReadFails ==
  /\ reader = "reading"
  /\ reader' = "ready" /\ from' = 0
  /\ UNCHANGED <<stream, trimmed, lastId, linger, clientVars, read>>

-----------------------------------------------------------------------------
(* The SSE connections, _stream. *)

KeepReader_Lingering == UNCHANGED linger
KeepReader == linger' = FALSE

\* stream() subscribes before the generator starts; the first subscriber of the tenant
\* starts a reader from "$", a later one keeps the reader that is there.
Connect(c) ==
  /\ phase[c] = "away"
  /\ phase' = [phase EXCEPT ![c] = "replay"]
  /\ KeepReader
  /\ reader' = IF reader = "off" THEN "ready" ELSE reader
  /\ UNCHANGED <<stream, trimmed, lastId, from, queue, dropped, maxSent, lastEvent,
                 known, read>>

\* After a resync, or when it had nothing to resume from, the page loads its data over
\* REST: it knows all that was published so far.
Reloads(c) ==
  /\ known' = [known EXCEPT ![c] = Ids]
  /\ UNCHANGED <<maxSent, lastEvent>>

\* history: the retention no longer reaches the client's last event.
Gap_EmptyOnly(c) == trimmed = Len(stream)
Gap(c) == trimmed + 1 > lastEvent[c]

Missed(c) == {i \in lastEvent[c] + 1 .. Len(stream) : i > trimmed}

\* The frames of the replay; max_sent stays None when none of it is wanted.
Replays(c) ==
  LET news == Wanted(c, Missed(c))
  IN  /\ known' = [known EXCEPT ![c] = @ \cup ToSet(news)]
      /\ IF news = <<>> THEN UNCHANGED <<maxSent, lastEvent>>
         ELSE /\ maxSent' = [maxSent EXCEPT ![c] = Last(news)]
              /\ lastEvent' = [lastEvent EXCEPT ![c] = Last(news)]

\* Any failure of XRANGE is taken for a gap.
Replay(c) ==
  /\ phase[c] = "replay"
  /\ phase' = [phase EXCEPT ![c] = "loop"]
  /\ \/ Reloads(c)
     \/ lastEvent[c] # 0 /\ ~Gap(c) /\ Cardinality(Missed(c)) <= ReplayMax /\ Replays(c)
  /\ UNCHANGED <<stream, trimmed, readerVars, linger, queue, dropped, read>>

LastOut(c) == subs = {c}

\* unsubscribe: its queue goes with it, and the last one out starts the linger.
Leaves(c) ==
  /\ phase' = [phase EXCEPT ![c] = "away"]
  /\ linger' = (linger \/ LastOut(c))
  /\ queue' = [queue EXCEPT ![c] = <<>>]
  /\ dropped' = [dropped EXCEPT ![c] = FALSE]
  /\ maxSent' = [maxSent EXCEPT ![c] = 0]
  /\ UNCHANGED <<stream, trimmed, readerVars, lastEvent, read>>

\* The top of the loop: a dropped subscriber is told to resync and let go.
LetGo(c) ==
  /\ phase[c] = "loop" /\ dropped[c]
  /\ Leaves(c)
  /\ known' = [known EXCEPT ![c] = Ids]

Wait(c) ==
  /\ phase[c] = "loop" /\ ~dropped[c]
  /\ phase' = [phase EXCEPT ![c] = "waiting"]
  /\ UNCHANGED <<stream, trimmed, readerVars, linger, queue, dropped, maxSent,
                 lastEvent, known, read>>

AlreadySent_LastOnly(c, ev) == ev = maxSent[c]
AlreadySent(c, ev) == ev <= maxSent[c]

\* queue.get: what the replay already sent is skipped.
Send(c) ==
  /\ phase[c] = "waiting" /\ queue[c] # <<>>
  /\ phase' = [phase EXCEPT ![c] = "loop"]
  /\ queue' = [queue EXCEPT ![c] = Tail(@)]
  /\ LET ev == Head(queue[c])
     IN  IF AlreadySent(c, ev) THEN UNCHANGED <<maxSent, lastEvent, known>>
         ELSE /\ maxSent' = [maxSent EXCEPT ![c] = ev]
              /\ lastEvent' = [lastEvent EXCEPT ![c] = ev]
              /\ known' = [known EXCEPT ![c] = @ \cup {ev}]
  /\ UNCHANGED <<stream, trimmed, readerVars, linger, dropped, read>>

\* The heartbeat: back to the top of the loop.
Ping(c) ==
  /\ phase[c] = "waiting" /\ queue[c] = <<>>
  /\ phase' = [phase EXCEPT ![c] = "loop"]
  /\ UNCHANGED <<stream, trimmed, readerVars, linger, queue, dropped, maxSent,
                 lastEvent, known, read>>

\* The browser goes, or its connection reaches its maximum life.
Disconnect(c) == c \in subs /\ Leaves(c) /\ UNCHANGED known

StopReader == reader' = "off" /\ lastId' = Latest /\ from' = 0

\* _stop_after_linger: unless somebody came back.
LingerEnds ==
  /\ linger
  /\ linger' = FALSE
  /\ IF subs = {} THEN StopReader ELSE UNCHANGED readerVars
  /\ UNCHANGED <<stream, trimmed, clientVars, read>>

\* The process restarts: every connection and the reader die with it.
Restart ==
  /\ phase' = [c \in Clients |-> "away"]
  /\ queue' = [c \in Clients |-> <<>>]
  /\ dropped' = [c \in Clients |-> FALSE]
  /\ maxSent' = [c \in Clients |-> 0]
  /\ StopReader /\ linger' = FALSE
  /\ UNCHANGED <<stream, trimmed, lastEvent, known, read>>

-----------------------------------------------------------------------------

NextReader == XRead \/ Entries \/ BlockExpires \/ XReadFails

NextClient(c) ==
  Connect(c) \/ Replay(c) \/ LetGo(c) \/ Wait(c) \/ Send(c) \/ Ping(c) \/ Disconnect(c)

Next ==
  \/ \E ch \in Announced : Publish(ch)
  \/ NextReader
  \/ \E c \in Clients : NextClient(c)
  \/ LingerEnds
  \/ Restart

Spec == Init /\ [][Next]_vars

\* The tasks of the event loop all run, and an XREAD that finds entries again and again
\* succeeds once.  Nothing makes a browser connect, or an XREAD fail.
Fairness ==
  /\ WF_vars(XRead) /\ SF_vars(Entries) /\ WF_vars(BlockExpires)
  /\ WF_vars(LingerEnds)
  /\ \A c \in Clients :
       WF_vars(Replay(c)) /\ WF_vars(LetGo(c)) /\ WF_vars(Wait(c)) /\ WF_vars(Send(c))
FairSpec == Spec /\ Fairness

-----------------------------------------------------------------------------
(* Properties. *)

\* Whoever is subscribed has a reader that nobody is about to stop, whatever the order
\* in which the last one leaves, the linger ends and somebody comes back.
SubscribersHaveReader == subs # {} => reader # "off" /\ ~linger

\* No reader runs on for a tenant without subscribers: it is always being stopped.
IdleReaderStops == subs = {} /\ reader # "off" => linger

\* A client that saw event i missed none of the earlier ones that a reader fanned out:
\* replay, queue, drop and reconnection leave no hole but with a resync.
NoHole ==
  \A c \in Clients : \A i \in 1 .. lastEvent[c] :
    Wants(c, i) /\ i \in read => i \in known[c]

\* Once a connection has sent an event it only sends later ones, though the replay and
\* the queue overlap.
InOrderOnce ==
  [][\A c \in Clients :
       phase[c] # "away" /\ maxSent[c] # 0 /\ lastEvent'[c] # lastEvent[c] =>
         lastEvent'[c] > lastEvent[c]]_vars

\* A reader that has read one entry loses no later one: the subscriber gets it, or is
\* told to resync, or goes.
Anchored(i) == reader # "off" /\ lastId # Latest /\ lastId < i /\ i > trimmed
Arrives ==
  \A c \in Clients, i \in 1 .. MaxEvents :
    (i \in Ids /\ Anchored(i) /\ c \in subs /\ Wants(c, i)) ~>
      (c \notin subs \/ i \in known[c] \/ i <= trimmed)

\* "Subscribe before the generator: nothing slips through" (realtime/router.py).  The
\* reader's own "$" leaves a slit: before its first XREAD, and between two of them.
NothingSlipsBy ==
  \A c \in Clients : \A i \in 1 .. lastEvent[c] :
    i > trimmed /\ Wants(c, i) => i \in known[c]
=============================================================================
