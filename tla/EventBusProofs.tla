--------------------------- MODULE EventBusProofs ---------------------------
(***************************************************************************)
(* For any number of browsers, channels and events: the life of the reader,*)
(* and a feed without holes whose frames ascend; and notices that reach    *)
(* every channel and every screen that comes back.                         *)
(***************************************************************************)
EXTENDS Alerts, FiniteSetTheorems, SequenceTheorems, WellFoundedInduction, TLAPS

\* The inductive invariant: the linger runs exactly while a reader has nobody to serve.
ReaderInv ==
  /\ phase \in [Clients -> Phases]
  /\ linger => subs = {} /\ reader # "off"
  /\ SubscribersHaveReader
  /\ IdleReaderStops

\* subscribe, unsubscribe, the end of the linger and a restart keep a reader exactly
\* for as long as it is needed; nothing else touches it.
LEMMA ReaderInvKept == ReaderInv /\ [Next]_vars => ReaderInv'
<1> SUFFICES ASSUME ReaderInv, [Next]_vars PROVE ReaderInv'
  OBVIOUS
<1> USE DEF ReaderInv, SubscribersHaveReader, IdleReaderStops, subs, Phases
<1>1. CASE \E ch \in Announced : Publish(ch)
  BY <1>1 DEF Publish, readerVars, clientVars
<1>2. CASE NextReader
  BY <1>2 DEF NextReader, XRead, Entries, BlockExpires, XReadFails, clientVars
<1>3. ASSUME NEW c \in Clients, NextClient(c) PROVE ReaderInv'
  <2>1. CASE Connect(c)
    BY <1>3, <2>1 DEF Connect, KeepReader
  <2>2. CASE /\ \E p \in {"loop", "waiting"} : phase' = [phase EXCEPT ![c] = p]
             /\ phase[c] # "away" /\ UNCHANGED <<reader, linger>>
    <3>1. subs' = subs
      BY <2>2
    <3> QED
      BY <2>2, <3>1
  <2>3. CASE phase[c] # "away" /\ Leaves(c)
    <3>1. subs' = subs \ {c} /\ c \in subs
      BY <2>3 DEF Leaves
    <3> QED
      BY <2>3, <3>1 DEF Leaves, LastOut, readerVars
  <2>4. CASE Replay(c)
    BY <2>2, <2>4 DEF Replay, readerVars
  <2>5. CASE Wait(c)
    BY <2>2, <2>5 DEF Wait, readerVars
  <2>6. CASE Send(c)
    BY <2>2, <2>6 DEF Send, readerVars
  <2>7. CASE Ping(c)
    BY <2>2, <2>7 DEF Ping, readerVars
  <2>8. CASE LetGo(c) \/ Disconnect(c)
    BY <2>3, <2>8 DEF LetGo, Disconnect
  <2> QED
    BY <1>3, <2>1, <2>4, <2>5, <2>6, <2>7, <2>8 DEF NextClient
<1>4. CASE LingerEnds
  BY <1>4 DEF LingerEnds, StopReader, clientVars
<1>5. CASE Restart
  BY <1>5 DEF Restart, StopReader
<1>6. CASE UNCHANGED vars
  BY <1>6 DEF vars, readerVars, clientVars
<1> QED
  BY <1>1, <1>2, <1>3, <1>4, <1>5, <1>6 DEF Next

\* For every set of browsers: whoever is subscribed has a reader that no linger is
\* about to stop, and a reader that serves nobody is about to be stopped.
THEOREM ReaderFollowsSubscribers == Spec => [](SubscribersHaveReader /\ IdleReaderStops)
<1>1. Init => ReaderInv
  BY DEF Init, ReaderInv, SubscribersHaveReader, IdleReaderStops, subs, Phases
<1>2. ReaderInv => SubscribersHaveReader /\ IdleReaderStops
  BY DEF ReaderInv
<1> QED
  BY <1>1, <1>2, ReaderInvKept, PTL DEF Spec

-----------------------------------------------------------------------------
(* No hole: what makes it inductive. *)

\* What the reader asks after, or would.
Position ==
  IF reader = "reading" THEN from ELSE IF lastId # Latest THEN lastId ELSE Len(stream)

\* Whatever was fanned out, the reader is past it.
ReaderIsPast ==
  /\ reader = "off" => lastId = Latest
  /\ reader = "reading" /\ lastId # Latest => from = lastId
  /\ \A i \in read : i <= Position

\* What a connection has sent, it has sent last; it starts and ends with nothing.
ConnectionFresh(c) ==
  /\ maxSent[c] \in {0, lastEvent[c]}
  /\ phase[c] \in {"away", "replay"} => maxSent[c] = 0
  /\ phase[c] = "away" => queue[c] = <<>> /\ ~dropped[c]

\* A queue has entries that were read, in their order.
QueueAscends(c) ==
  /\ \A m \in DOMAIN queue[c] : queue[c][m] \in read /\ Wants(c, queue[c][m])
  /\ \A m, n \in DOMAIN queue[c] : m < n => queue[c][m] < queue[c][n]

\* Once the replay is over, what was read and is wanted is known or in the queue, or came
\* after all that is in the queue of a subscriber that will be told to resync.
Accounted(c, i) ==
  \/ i \in known[c]
  \/ \E m \in DOMAIN queue[c] : queue[c][m] = i
  \/ dropped[c] /\ \A m \in DOMAIN queue[c] : queue[c][m] < i

NothingLost(c) ==
  phase[c] \in {"loop", "waiting"} => \A i \in read : Wants(c, i) => Accounted(c, i)

\* NoHole, for one browser, and for what the reader will yet come to: a replay reads the
\* stream itself, and may be ahead of it.
Whole(c) ==
  \A i \in 1 .. lastEvent[c] :
    Wants(c, i) /\ (i \in read \/ i > Position) => i \in known[c]

ClientInv(c) == ConnectionFresh(c) /\ QueueAscends(c) /\ NothingLost(c) /\ Whole(c)

BusInv == TypeOK /\ ReaderIsPast /\ \A c \in Clients : ClientInv(c)

(* Ranking the members of a finite set of numbers counts them off, one by one. *)
LEMMA RanksCount ==
  ASSUME NEW T \in SUBSET Nat, IsFiniteSet(T)
  PROVE  /\ Cardinality(T) \in Nat
         /\ \A i \in T : Cardinality({j \in T : j <= i}) \in 1 .. Cardinality(T)
         /\ \A i, k \in T :
              i < k => Cardinality({j \in T : j <= i}) < Cardinality({j \in T : j <= k})
         /\ \A n \in 1 .. Cardinality(T) : \E i \in T : Cardinality({j \in T : j <= i}) = n
<1> DEFINE Upto(i) == {j \in T : j <= i}
           rank == [i \in T |-> Cardinality(Upto(i))]
<1>0. \A i \in T : i \in Nat
  OBVIOUS
<1>1. Cardinality(T) \in Nat
  BY FS_CardinalityType
<1>2. ASSUME NEW i \in T
      PROVE  /\ IsFiniteSet(Upto(i)) /\ Cardinality(Upto(i)) \in Nat
             /\ Cardinality(Upto(i)) <= Cardinality(T)
             /\ Cardinality(Upto(i)) # 0
  <2>1. Upto(i) \in SUBSET T /\ Upto(i) # {}
    BY <1>2
  <2> QED
    BY <2>1, FS_Subset, FS_CardinalityType, FS_EmptySet
<1>3. \A i \in T : Cardinality(Upto(i)) \in 1 .. Cardinality(T)
  BY <1>1, <1>2
<1>4. ASSUME NEW i \in T, NEW k \in T, i < k PROVE Cardinality(Upto(i)) < Cardinality(Upto(k))
  <2>1. Upto(i) \in SUBSET Upto(k) /\ Upto(i) # Upto(k)
    <3>1. k \in Upto(k) /\ k \notin Upto(i)
      BY <1>4
    <3>2. ASSUME NEW j \in T, j <= i PROVE j <= k
      BY <1>0, <1>4, <3>2
    <3> QED
      BY <3>1, <3>2
  <2> HIDE DEF Upto
  <2> QED
    BY <1>2, <2>1, FS_Subset
<1>5. rank \in Injection(T, 1 .. Cardinality(T))
  <2>1. rank \in [T -> 1 .. Cardinality(T)]
    BY <1>3
  <2>2. ASSUME NEW i \in T, NEW k \in T, rank[i] = rank[k] PROVE i = k
    <3>1. i < k \/ k < i \/ i = k
      BY <1>0
    <3>2. rank[i] = Cardinality(Upto(i)) /\ rank[k] = Cardinality(Upto(k))
      OBVIOUS
    <3>3. Cardinality(Upto(i)) \in Nat /\ Cardinality(Upto(i)) = Cardinality(Upto(k))
      BY <1>2, <2>2, <3>2
    <3> HIDE DEF Upto, rank
    <3>4. ~(i < k) /\ ~(k < i)
      BY <1>4, <3>3
    <3> QED
      BY <3>1, <3>4
  <2> HIDE DEF rank
  <2> QED
    BY <2>1, <2>2 DEF Injection, IsInjective
<1>6. rank \in Surjection(T, 1 .. Cardinality(T))
  <2>1. IsFiniteSet(1 .. Cardinality(T)) /\ Cardinality(1 .. Cardinality(T)) = Cardinality(T)
    BY <1>1, FS_Interval
  <2> HIDE DEF rank
  <2> QED
    BY <1>5, <2>1, FS_Injection
<1>7. ASSUME NEW n \in 1 .. Cardinality(T) PROVE \E i \in T : Cardinality(Upto(i)) = n
  <2>1. \E i \in T : rank[i] = n
    <3> HIDE DEF rank
    <3> QED
      BY <1>6, <1>7 DEF Surjection
  <2> QED
    BY <2>1
<1> QED
  BY <1>1, <1>3, <1>4, <1>7

(* What Wanted returns: the wanted entries, each once, in the order of the stream. *)
LEMMA WantedAscends ==
  ASSUME NEW c \in Clients, NEW S \in SUBSET Nat, IsFiniteSet(S)
  PROVE  LET w == Wanted(c, S)
         IN  /\ w \in Seq({i \in S : Wants(c, i)})
             /\ \A m, n \in 1 .. Len(w) : m < n => w[m] < w[n]
             /\ \A i \in S : Wants(c, i) => \E m \in 1 .. Len(w) : w[m] = i
<1> DEFINE T == {i \in S : Wants(c, i)}
           rank(i) == Cardinality({j \in T : j <= i})
           Size == Cardinality(T)
           w == [n \in 1 .. Size |-> CHOOSE i \in T : rank(i) = n]
<1>1. IsFiniteSet(T) /\ T \in SUBSET Nat /\ \A i \in T : i \in Nat
  BY FS_Subset
<1> HIDE DEF T
<1>2. /\ Size \in Nat /\ \A i \in T : rank(i) \in 1 .. Size
      /\ \A i, k \in T : i < k => rank(i) < rank(k)
      /\ \A n \in 1 .. Size : \E i \in T : rank(i) = n
  BY <1>1, RanksCount
<1> HIDE DEF rank, Size
<1>3. \A n \in 1 .. Size : w[n] \in T /\ rank(w[n]) = n
  BY <1>2
<1>8. \A i \in T : rank(i) \in Int
  BY <1>2
<1>4. w \in Seq(T) /\ Len(w) = Size
  BY <1>2, <1>3
<1> HIDE DEF w
<1>5. ASSUME NEW m \in 1 .. Size, NEW n \in 1 .. Size, m < n PROVE w[m] < w[n]
  <2>1. w[m] \in T /\ w[n] \in T /\ rank(w[m]) < rank(w[n])
    BY <1>3, <1>5
  <2>2. rank(w[m]) \in Int /\ rank(w[n]) \in Int /\ w[m] \in Nat /\ w[n] \in Nat
    BY <1>1, <1>8, <2>1
  <2>3. w[m] < w[n] \/ w[m] = w[n] \/ w[n] < w[m]
    BY <2>2
  <2> QED
    BY <1>2, <2>1, <2>2, <2>3
<1>6. ASSUME NEW i \in T PROVE \E m \in 1 .. Size : w[m] = i
  <2>1. rank(i) \in 1 .. Size
    BY <1>2
  <2>2. w[rank(i)] \in T /\ rank(w[rank(i)]) = rank(i)
    BY <1>3, <2>1
  <2>3. w[rank(i)] = i
    <3>1. w[rank(i)] \in Nat /\ i \in Nat /\ rank(i) \in Int
      BY <1>1, <1>8, <2>2
    <3>2. w[rank(i)] < i \/ w[rank(i)] = i \/ i < w[rank(i)]
      BY <3>1
    <3> QED
      BY <1>2, <2>2, <3>1, <3>2
  <2> QED
    BY <2>1, <2>3
<1>7. Wanted(c, S) = w
  BY DEF Wanted, w, Size, rank, T
<1> QED
  BY <1>4, <1>5, <1>6, <1>7 DEF T

(* What a fan-out of entries later than all that was read does to one queue. *)
LEMMA FanoutFeeds ==
  ASSUME TypeOK, NEW S \in SUBSET Ids, Fanout(S), NEW c \in Clients, QueueAscends(c),
         \A i \in S, j \in read : j < i
  PROVE  /\ queue'[c] \in Seq(Ids) /\ Len(queue'[c]) <= QueueSize /\ dropped'[c] \in BOOLEAN
         /\ c \notin subs \/ dropped[c] => queue'[c] = queue[c] /\ dropped'[c] = dropped[c]
         /\ \A m \in 1 .. Len(queue[c]) : m \in 1 .. Len(queue'[c]) /\ queue'[c][m] = queue[c][m]
         /\ \A m \in 1 .. Len(queue'[c]) : queue'[c][m] \in read \cup S /\ Wants(c, queue'[c][m])
         /\ \A m, n \in 1 .. Len(queue'[c]) : m < n => queue'[c][m] < queue'[c][n]
         /\ c \in subs /\ ~dropped[c] => \A i \in S : Wants(c, i) =>
              \/ \E m \in 1 .. Len(queue'[c]) : queue'[c][m] = i
              \/ dropped'[c] /\ \A m \in 1 .. Len(queue'[c]) : queue'[c][m] < i
<1> DEFINE q   == queue[c]
           all == Wanted(c, S)
           m0  == Least(Room(c), Len(all))
           fed == SubSeq(all, 1, m0)
<1>0. /\ Len(stream) \in Nat /\ Ids \subseteq Nat /\ \A i \in Ids : i \in Nat
      /\ QueueSize \in Nat /\ Len(q) \in Nat /\ Len(q) <= QueueSize
      /\ q \in Seq(Ids) /\ DOMAIN q = 1 .. Len(q) /\ dropped[c] \in BOOLEAN
      /\ read \subseteq Ids
  BY EventBusAssumption DEF TypeOK, Ids
<1>1. /\ all \in Seq({i \in S : Wants(c, i)})
      /\ \A m, n \in 1 .. Len(all) : m < n => all[m] < all[n]
      /\ \A i \in S : Wants(c, i) => \E m \in 1 .. Len(all) : all[m] = i
  <2>1. IsFiniteSet(1 .. Len(stream)) /\ S \in SUBSET (1 .. Len(stream))
    BY <1>0, FS_Interval DEF Ids
  <2>2. IsFiniteSet(S) /\ S \in SUBSET Nat
    BY <1>0, <2>1, FS_Subset
  <2> QED
    BY <2>2, WantedAscends
<1>2. /\ \A m \in 1 .. Len(q) : q[m] \in read /\ Wants(c, q[m]) /\ q[m] \in Nat
      /\ \A m, n \in 1 .. Len(q) : m < n => q[m] < q[n]
  BY <1>0 DEF QueueAscends
<1>3. CASE c \notin subs \/ dropped[c]
  <2>1. queue'[c] = q /\ dropped'[c] = dropped[c]
    BY <1>0, <1>3 DEF Fanout
  <2> QED
    BY <1>0, <1>2, <1>3, <2>1
<1>4. CASE c \in subs /\ ~dropped[c]
  <2>1. /\ queue'[c] = q \o fed
        /\ Len(all) > Room(c) => dropped'[c]
        /\ dropped'[c] \in BOOLEAN
    <3>1. queue'[c] = q \o fed
      BY <1>4 DEF Fanout
    <3>2. dropped'[c] = (dropped[c] \/ (c \in subs /\ ~dropped[c] /\ Len(all) > Room(c)))
      BY DEF Fanout
    <3> HIDE DEF all
    <3> QED
      BY <1>4, <3>1, <3>2
  <2> HIDE DEF all
  <2>2. /\ Len(all) \in Nat /\ Room(c) \in Nat /\ Room(c) = QueueSize - Len(q)
        /\ m0 \in Nat /\ m0 <= Len(all) /\ m0 <= Room(c)
        /\ m0 < Len(all) => m0 = Room(c) /\ Len(all) > Room(c)
        /\ \A m \in 1 .. Len(all) : all[m] \in S /\ Wants(c, all[m])
    <3>1. Len(all) \in Nat /\ \A m \in 1 .. Len(all) : all[m] \in {i \in S : Wants(c, i)}
      BY <1>1
    <3>2. Room(c) \in Nat /\ Room(c) = QueueSize - Len(q)
      BY <1>0 DEF Room
    <3>3. m0 = IF Room(c) < Len(all) THEN Room(c) ELSE Len(all)
      BY DEF Least
    <3> HIDE DEF m0
    <3> QED
      BY <3>1, <3>2, <3>3
  <2> HIDE DEF m0
  <2>3. /\ fed \in Seq(Ids) /\ Len(fed) = m0
        /\ \A m \in 1 .. m0 : fed[m] = all[m]
    <3>1. \A m \in 1 .. m0 : all[m] \in Ids
      BY <2>2
    <3> QED
      BY <2>2, <3>1, SubSeqProperties
  <2> HIDE DEF fed
  <2>4. /\ q \o fed \in Seq(Ids) /\ Len(q \o fed) = Len(q) + m0
        /\ \A m \in 1 .. Len(q) + m0 :
             (q \o fed)[m] = IF m <= Len(q) THEN q[m] ELSE fed[m - Len(q)]
    BY <1>0, <2>3, ConcatProperties
  <2> HIDE DEF q
  <2> DEFINE r == queue'[c]
  <2>5. /\ r \in Seq(Ids) /\ Len(r) = Len(q) + m0 /\ Len(r) \in Nat
        /\ \A m \in 1 .. Len(q) : m \in 1 .. Len(r) /\ r[m] = q[m]
        /\ \A m \in 1 .. m0 : Len(q) + m \in 1 .. Len(r) /\ r[Len(q) + m] = all[m]
        /\ \A m \in 1 .. Len(r) : m > Len(q) => m - Len(q) \in 1 .. m0 /\ r[m] = all[m - Len(q)]
    <3>1. r = q \o fed
      BY <2>1
    <3> HIDE DEF r
    <3>2. r \in Seq(Ids) /\ Len(r) = Len(q) + m0 /\ Len(r) \in Nat
      BY <1>0, <2>2, <2>4, <3>1
    <3>3. \A m \in 1 .. Len(q) : m \in 1 .. Len(r) /\ r[m] = q[m]
      BY <1>0, <2>2, <2>4, <3>1, <3>2
    <3>4. ASSUME NEW m \in 1 .. m0
          PROVE  Len(q) + m \in 1 .. Len(r) /\ r[Len(q) + m] = all[m]
      <4>1. /\ Len(q) + m \in 1 .. Len(q) + m0 /\ ~(Len(q) + m <= Len(q))
            /\ Len(q) + m - Len(q) = m
        BY <1>0, <2>2
      <4> QED
        BY <2>3, <2>4, <3>1, <3>2, <4>1
    <3>5. ASSUME NEW m \in 1 .. Len(r), m > Len(q)
          PROVE  m - Len(q) \in 1 .. m0 /\ r[m] = all[m - Len(q)]
      <4>1. m \in 1 .. Len(q) + m0 /\ ~(m <= Len(q)) /\ m - Len(q) \in 1 .. m0
        BY <1>0, <2>2, <3>2, <3>5
      <4> QED
        BY <2>3, <2>4, <3>1, <4>1
    <3> QED
      BY <3>2, <3>3, <3>4, <3>5
  <2> HIDE DEF r
  <2>6. \A m \in 1 .. Len(r) : /\ r[m] \in read \cup S /\ Wants(c, r[m]) /\ r[m] \in Nat
                               /\ m > Len(q) => r[m] \in S
                               /\ m <= Len(q) => r[m] \in read
    <3>1. TAKE m \in 1 .. Len(r)
    <3>2. CASE m <= Len(q)
      BY <1>0, <1>2, <2>5, <3>2
    <3>3. CASE m > Len(q)
      <4>1. m - Len(q) \in 1 .. Len(all) /\ r[m] = all[m - Len(q)]
        BY <2>2, <2>5, <3>3
      <4>2. r[m] \in S /\ Wants(c, r[m])
        BY <2>2, <4>1
      <4>3. r[m] \in Nat
        BY <1>0, <4>2
      <4>4. ~(m <= Len(q))
        BY <1>0, <2>5, <3>3
      <4> QED
        BY <3>3, <4>2, <4>3, <4>4
    <3> QED
      BY <1>0, <2>5, <3>2, <3>3
  <2>7. ASSUME NEW m \in 1 .. Len(r), NEW n \in 1 .. Len(r), m < n PROVE r[m] < r[n]
    <3>1. CASE n <= Len(q)
      BY <1>0, <1>2, <2>5, <2>7, <3>1
    <3>2. CASE m > Len(q)
      <4>1. m - Len(q) < n - Len(q) /\ n > Len(q) /\ m - Len(q) \in 1 .. Len(all)
            /\ n - Len(q) \in 1 .. Len(all)
        BY <1>0, <2>2, <2>5, <2>7, <3>2
      <4> QED
        BY <1>1, <2>5, <2>7, <3>2, <4>1
    <3>3. CASE m <= Len(q) /\ n > Len(q)
      BY <2>6, <2>7, <3>3
    <3> QED
      BY <1>0, <2>5, <2>7, <3>1, <3>2, <3>3
  <2>8. ASSUME NEW i \in S, Wants(c, i)
        PROVE  \/ \E m \in 1 .. Len(r) : r[m] = i
               \/ dropped'[c] /\ \A m \in 1 .. Len(r) : r[m] < i
    <3>1. PICK n \in 1 .. Len(all) : all[n] = i
      BY <1>1, <2>8
    <3>2. CASE n <= m0
      BY <2>2, <2>5, <3>1, <3>2, SMTT(30)
    <3>3. CASE n > m0
      <4>1. dropped'[c]
        <5>1. m0 < Len(all)
          BY <2>2, <3>3
        <5> QED
          BY <2>1, <2>2, <5>1
      <4>2. ASSUME NEW m \in 1 .. Len(r) PROVE r[m] < i
        <5>1. CASE m <= Len(q)
          BY <2>6, <5>1
        <5>2. CASE m > Len(q)
          <6>1. m - Len(q) \in 1 .. m0 /\ r[m] = all[m - Len(q)]
            BY <2>5, <5>2
          <6>2. m - Len(q) \in 1 .. Len(all) /\ m - Len(q) < n
            BY <1>0, <2>2, <2>5, <3>3, <6>1, SMTT(30)
          <6> QED
            BY <1>1, <3>1, <6>1, <6>2
        <5> QED
          BY <1>0, <2>5, <5>1, <5>2
      <4> QED
        BY <4>1, <4>2
    <3> QED
      BY <2>2, <3>2, <3>3
  <2>9. Len(r) <= QueueSize /\ dropped'[c] \in BOOLEAN
    BY <1>0, <2>1, <2>2, <2>5
  <2> QED
    BY <1>4, <2>5, <2>6, <2>7, <2>8, <2>9 DEF q, r
<1> QED
  BY <1>0, <1>3, <1>4

\* The reader never goes back.
Moves == Position \in Nat /\ Position' \in Nat /\ Position <= Position'

(* Who takes no part in a step keeps what holds of it: the past of the stream does not change. *)
LEMMA ClientFrame ==
  ASSUME TypeOK, NEW c \in Clients, ClientInv(c), read' = read, Moves,
         \A i \in Ids : stream'[i] = stream[i],
         phase'[c] = phase[c], queue'[c] = queue[c], dropped'[c] = dropped[c],
         maxSent'[c] = maxSent[c], lastEvent'[c] = lastEvent[c], known'[c] = known[c]
  PROVE  ClientInv(c)'
<1>1. \A i \in Ids : Wants(c, i)' = Wants(c, i)
  BY DEF Wants
<1>2. read \subseteq Ids /\ \A i \in 1 .. lastEvent[c] : i \in Ids
  BY DEF TypeOK, Ids
<1>3. ConnectionFresh(c)' /\ QueueAscends(c)' /\ NothingLost(c)'
  BY <1>1, <1>2 DEF ClientInv, ConnectionFresh, QueueAscends, NothingLost, Accounted
<1>4. Whole(c)'
  <2>1. \A i \in Nat : i > Position' => i > Position
    BY DEF Moves
  <2>2. \A i \in 1 .. lastEvent[c] : i \in Nat
    BY DEF TypeOK
  <2> QED
    BY <1>1, <1>2, <2>1, <2>2 DEF ClientInv, Whole
<1> QED
  BY <1>3, <1>4 DEF ClientInv

(* The steps of the stream and of the reader that hand out no entry. *)
LEMMA QuietSteps ==
  ASSUME BusInv,
         (\E ch \in Announced : Publish(ch)) \/ XRead \/ BlockExpires \/ XReadFails
           \/ LingerEnds \/ UNCHANGED vars
  PROVE  BusInv'
<1>0. /\ TypeOK /\ Len(stream) \in Nat /\ stream \in Seq(Announced) /\ Ids = 1 .. Len(stream)
      /\ trimmed \in 0 .. Len(stream) /\ read \subseteq Ids /\ MaxLen \in Nat \ {0}
  BY EventBusAssumption DEF BusInv, TypeOK, Ids
<1>p. Position \in 0 .. Len(stream)
  BY <1>0 DEF Position, TypeOK, Latest
<1>1. UNCHANGED <<clientVars, read>>
  BY DEF Publish, XRead, BlockExpires, XReadFails, LingerEnds, vars
<1>2. CASE \E ch \in Announced : Publish(ch)
  <2>1. PICK ch \in Announced : Publish(ch)
    BY <1>2
  <2>2. /\ stream' \in Seq(Announced) /\ Len(stream') = Len(stream) + 1
        /\ \A i \in Ids : stream'[i] = stream[i]
    BY <1>0, <2>1 DEF Publish
  <2>3. trimmed' \in 0 .. Len(stream')
    BY <1>0, <2>1, <2>2 DEF Publish
  <2>4. Ids \subseteq Ids' /\ Ids' = 1 .. Len(stream')
    BY <1>0, <2>2 DEF Ids
  <2>5. \A T : T \in Seq(Ids) => T \in Seq(Ids')
    BY <2>4, SeqMonotonic
  <2>6. TypeOK'
    <3>1. queue' \in [Clients -> Seq(Ids')] /\ known' \in [Clients -> SUBSET Ids']
      BY <1>0, <1>1, <2>4, <2>5 DEF TypeOK, clientVars
    <3>2. UNCHANGED <<reader, lastId, from, linger, read>>
      BY <2>1 DEF Publish, readerVars
    <3>3. 0 .. Len(stream) \subseteq 0 .. Len(stream')
      BY <1>0, <2>2
    <3> QED
      BY <1>0, <1>1, <2>2, <2>3, <2>4, <3>1, <3>2, <3>3 DEF TypeOK, clientVars
  <2>9. Moves
    BY <1>0, <1>p, <2>1, <2>2 DEF Moves, Position, Publish, readerVars
  <2>7. \A c \in Clients : ClientInv(c)'
    BY <1>0, <1>1, <2>2, <2>9, ClientFrame DEF BusInv, clientVars
  <2>8. ReaderIsPast'
    <3>1. \A i \in read : i \in Nat /\ i <= Position
      BY <1>0 DEF BusInv, ReaderIsPast
    <3> QED
      BY <2>1, <2>9, <3>1 DEF Publish, readerVars, BusInv, ReaderIsPast, Moves
  <2> QED
    BY <2>6, <2>7, <2>8 DEF BusInv
<1>3. ASSUME UNCHANGED <<stream, trimmed>>, linger' \in BOOLEAN,
             reader' \in {"off", "ready", "reading"}, lastId' \in 0 .. Len(stream),
             from' \in 0 .. Len(stream), Position <= Position',
             reader' = "off" => lastId' = Latest,
             reader' = "reading" /\ lastId' # Latest => from' = lastId'
      PROVE  BusInv'
  <2>1. TypeOK'
    BY <1>0, <1>1, <1>3 DEF TypeOK, clientVars, Ids
  <2>2. Position' \in 0 .. Len(stream)
    BY <1>0, <1>3 DEF Position, Latest
  <2>3. Moves
    BY <1>0, <1>p, <1>3, <2>2 DEF Moves
  <2>4. \A c \in Clients : ClientInv(c)'
    BY <1>0, <1>1, <1>3, <2>3, ClientFrame DEF BusInv, clientVars
  <2>5. ReaderIsPast'
    <3>1. \A i \in read : i \in Nat /\ i <= Position
      BY <1>0 DEF BusInv, ReaderIsPast
    <3> QED
      BY <1>1, <1>3, <2>3, <3>1 DEF ReaderIsPast, Moves
  <2> QED
    BY <2>1, <2>4, <2>5 DEF BusInv
<1>4. /\ reader \in {"off", "ready", "reading"} /\ lastId \in 0 .. Len(stream)
      /\ from \in 0 .. Len(stream) /\ linger \in BOOLEAN
      /\ reader = "off" => lastId = Latest
      /\ reader = "reading" /\ lastId # Latest => from = lastId
  BY DEF BusInv, TypeOK, ReaderIsPast
<1>5. CASE XRead
  <2>1. AsksAfter \in 0 .. Len(stream) /\ AsksAfter = Position
    BY <1>0, <1>4, <1>5 DEF XRead, AsksAfter, Position
  <2>2. Position' = AsksAfter /\ (lastId' # Latest => from' = lastId')
    BY <1>5, <2>1 DEF XRead, AsksAfter, Position
  <2> QED
    BY <1>0, <1>3, <1>4, <1>5, <1>p, <2>1, <2>2 DEF XRead
<1>6. CASE BlockExpires \/ XReadFails
  <2>1. Position <= Position'
    BY <1>0, <1>4, <1>6 DEF BlockExpires, XReadFails, Position
  <2> QED
    BY <1>0, <1>3, <1>4, <1>6, <2>1 DEF BlockExpires, XReadFails
<1>7. CASE LingerEnds
  <2>1. CASE subs = {}
    <3>1. reader' = "off" /\ lastId' = Latest /\ from' = 0 /\ UNCHANGED <<stream, trimmed>>
          /\ linger' = FALSE
      BY <1>7, <2>1 DEF LingerEnds, StopReader
    <3>2. Position' = Len(stream)
      BY <3>1 DEF Position
    <3>3. Position <= Position' /\ lastId' \in 0 .. Len(stream) /\ from' \in 0 .. Len(stream)
      BY <1>0, <1>p, <3>1, <3>2 DEF Latest
    <3> QED
      BY <1>3, <3>1, <3>3
  <2>2. CASE subs # {}
    <3>1. UNCHANGED <<reader, lastId, from, stream, trimmed>> /\ linger' = FALSE
      BY <1>7, <2>2 DEF LingerEnds, readerVars
    <3>2. Position' = Position
      BY <3>1 DEF Position
    <3>3. Position <= Position'
      BY <1>0, <1>p, <3>2
    <3> QED
      BY <1>3, <1>4, <3>1, <3>3
  <2> QED
    BY <2>1, <2>2
<1>8. CASE UNCHANGED vars
  <2>1. Position' = Position
    BY <1>8 DEF Position, vars, readerVars
  <2> QED
    BY <1>3, <1>4, <1>8, <1>p, <2>1 DEF vars, readerVars
<1> QED
  BY <1>2, <1>5, <1>6, <1>7, <1>8

(* A fan-out: what it hands out is later than all that was read before. *)
LEMMA EntriesKeep == ASSUME BusInv, Entries PROVE BusInv'
<1>0. /\ TypeOK /\ Len(stream) \in Nat /\ Ids = 1 .. Len(stream) /\ from \in 0 .. Len(stream)
      /\ read \subseteq Ids /\ reader = "reading" /\ \A i \in read : i <= from
      /\ trimmed \in 0 .. Len(stream) /\ stream' = stream
  BY DEF BusInv, TypeOK, Ids, ReaderIsPast, Entries, Position
<1>1. PICK k \in from + 1 .. Len(stream) :
        /\ k > trimmed /\ Fanout({i \in from + 1 .. k : i > trimmed}) /\ lastId' = k
  BY DEF Entries
<1> DEFINE S == {i \in from + 1 .. k : i > trimmed}
<1>2. /\ S \in SUBSET Ids /\ Fanout(S) /\ read' = read \cup S
      /\ \A i \in S, j \in read : j < i
      /\ \A i \in S : i <= k
  BY <1>0, <1>1 DEF Fanout
<1> HIDE DEF S
<1>3. \A c \in Clients : QueueAscends(c) /\ ClientInv(c)
  BY DEF BusInv, ClientInv
<1>4. UNCHANGED <<stream, trimmed, linger, phase, maxSent, lastEvent, known>>
  BY DEF Entries
<1>5. TypeOK'
  <2>1. \A c \in Clients : /\ queue'[c] \in Seq(Ids) /\ Len(queue'[c]) <= QueueSize
                           /\ dropped'[c] \in BOOLEAN
    BY <1>0, <1>2, <1>3, FanoutFeeds
  <2>2. queue' \in [Clients -> Seq(Ids)] /\ dropped' \in [Clients -> BOOLEAN]
    <3>1. /\ queue' = [c \in Clients |-> queue'[c]]
          /\ dropped' = [c \in Clients |-> dropped'[c]]
      BY <1>2 DEF Fanout
    <3> QED
      BY <2>1, <3>1
  <2>3. Ids' = Ids /\ k \in 0 .. Len(stream) /\ reader' = "ready" /\ from' = 0
    BY <1>0, <1>1 DEF Ids, Entries
  <2> QED
    BY <1>0, <1>1, <1>2, <1>4, <2>1, <2>2, <2>3 DEF TypeOK
<1>6. ReaderIsPast' /\ Position' = k /\ Position = from
  <2>1. reader' = "ready" /\ lastId' = k /\ k # Latest
    BY <1>0, <1>1 DEF Entries, Latest
  <2>2. Position' = k /\ Position = from
    BY <1>0, <2>1 DEF Position
  <2>3. \A i \in read' : i <= k
    BY <1>0, <1>1, <1>2
  <2> QED
    BY <2>1, <2>2, <2>3 DEF ReaderIsPast
<1>7. ASSUME NEW c \in Clients PROVE ClientInv(c)'
  <2> DEFINE q == queue[c]
             r == queue'[c]
  <2>0. /\ DOMAIN q = 1 .. Len(q) /\ DOMAIN r = 1 .. Len(r)
        /\ dropped[c] \in BOOLEAN /\ lastEvent[c] \in 0 .. Len(stream)
    BY <1>0, <1>5 DEF TypeOK
  <2>1. /\ c \notin subs \/ dropped[c] => r = q /\ dropped'[c] = dropped[c]
        /\ \A m \in 1 .. Len(q) : m \in 1 .. Len(r) /\ r[m] = q[m]
        /\ \A m \in 1 .. Len(r) : r[m] \in read' /\ Wants(c, r[m])
        /\ \A m, n \in 1 .. Len(r) : m < n => r[m] < r[n]
        /\ c \in subs /\ ~dropped[c] => \A i \in S : Wants(c, i) =>
              \/ \E m \in 1 .. Len(r) : r[m] = i
              \/ dropped'[c] /\ \A m \in 1 .. Len(r) : r[m] < i
    BY <1>0, <1>2, <1>3, FanoutFeeds
  <2>2. \A i : Wants(c, i)' = Wants(c, i)
    BY <1>4 DEF Wants
  <2>3. ConnectionFresh(c)'
    BY <1>3, <1>4, <2>1 DEF ClientInv, ConnectionFresh, subs
  <2>4. QueueAscends(c)'
    BY <2>0, <2>1, <2>2 DEF QueueAscends
  <2>5. Whole(c)'
    <3>1. \A i \in 1 .. lastEvent[c] : i \in S \/ i > k => i > from
      BY <1>0, <1>1, <2>0 DEF S
    <3> QED
      BY <1>2, <1>3, <1>4, <1>6, <2>2, <3>1 DEF ClientInv, Whole
  <2>6. NothingLost(c)'
    <3> SUFFICES ASSUME phase[c] \in {"loop", "waiting"}, NEW i \in read', Wants(c, i)
                 PROVE  Accounted(c, i)'
      BY <1>4, <2>2 DEF NothingLost
    <3>1. c \in subs
      BY DEF subs
    <3>2. CASE i \in read /\ i \in known[c]
      BY <1>4, <3>2 DEF Accounted
    <3>3. CASE i \in read /\ \E m \in DOMAIN q : q[m] = i
      BY <2>0, <2>1, <3>3 DEF Accounted
    <3>4. CASE dropped[c] /\ \A m \in DOMAIN q : q[m] < i
      BY <2>0, <2>1, <3>4 DEF Accounted
    <3>5. CASE i \in S /\ ~dropped[c]
      BY <2>0, <2>1, <3>1, <3>5 DEF Accounted
    <3>6. CASE i \in S /\ dropped[c]
      <4>1. \A m \in DOMAIN q : q[m] < i
        BY <1>2, <1>3, <3>6 DEF QueueAscends
      <4> QED
        BY <3>4, <3>6, <4>1
    <3>7. i \in read => Accounted(c, i)
      BY <1>3 DEF ClientInv, NothingLost
    <3> QED
      BY <1>2, <3>2, <3>3, <3>4, <3>5, <3>6, <3>7 DEF Accounted
  <2> QED
    BY <2>3, <2>4, <2>5, <2>6 DEF ClientInv
<1> QED
  BY <1>5, <1>6, <1>7 DEF BusInv

(* A step of one connection: what it may leave behind, and the others untouched. *)
OnlyMoves(c) ==
  /\ phase'[c] \in Phases /\ phase' = [phase EXCEPT ![c] = phase'[c]]
  /\ queue'[c] \in Seq(Ids) /\ Len(queue'[c]) <= QueueSize
  /\ queue' = [queue EXCEPT ![c] = queue'[c]]
  /\ dropped'[c] \in BOOLEAN /\ dropped' = [dropped EXCEPT ![c] = dropped'[c]]
  /\ maxSent'[c] \in 0 .. Len(stream) /\ maxSent' = [maxSent EXCEPT ![c] = maxSent'[c]]
  /\ lastEvent'[c] \in 0 .. Len(stream)
  /\ lastEvent' = [lastEvent EXCEPT ![c] = lastEvent'[c]]
  /\ known'[c] \in SUBSET Ids /\ known' = [known EXCEPT ![c] = known'[c]]
  /\ UNCHANGED <<stream, trimmed, read, lastId, from>>
  /\ reader' = reader \/ (reader = "off" /\ reader' = "ready")
  /\ linger' \in BOOLEAN

LEMMA OneClient ==
  ASSUME BusInv, NEW c \in Clients, OnlyMoves(c), ClientInv(c)'
  PROVE  BusInv'
<1>0. /\ TypeOK /\ ReaderIsPast /\ Len(stream) \in Nat /\ Ids' = Ids
      /\ UNCHANGED <<stream, trimmed, read, lastId, from>>
      /\ reader' = reader \/ (reader = "off" /\ reader' = "ready")
  BY DEF BusInv, TypeOK, Ids, OnlyMoves
<1>1. Position' = Position /\ ReaderIsPast' /\ Position \in Nat
  BY <1>0 DEF Position, ReaderIsPast, TypeOK, Latest
<1>2. TypeOK'
  <2>1. /\ phase' \in [Clients -> Phases] /\ queue' \in [Clients -> Seq(Ids)]
        /\ \A b \in Clients : Len(queue'[b]) <= QueueSize
    BY <1>0 DEF TypeOK, OnlyMoves
  <2>2. /\ dropped' \in [Clients -> BOOLEAN] /\ maxSent' \in [Clients -> 0 .. Len(stream)]
        /\ lastEvent' \in [Clients -> 0 .. Len(stream)]
        /\ known' \in [Clients -> SUBSET Ids]
    BY <1>0 DEF TypeOK, OnlyMoves
  <2> QED
    BY <1>0, <2>1, <2>2 DEF TypeOK, OnlyMoves
<1>3. Moves
  BY <1>1 DEF Moves
<1>4. ASSUME NEW b \in Clients, b # c PROVE ClientInv(b)'
  <2>1. /\ phase'[b] = phase[b] /\ queue'[b] = queue[b] /\ dropped'[b] = dropped[b]
        /\ maxSent'[b] = maxSent[b] /\ lastEvent'[b] = lastEvent[b] /\ known'[b] = known[b]
    BY <1>0, <1>4 DEF TypeOK, OnlyMoves
  <2> QED
    BY <1>0, <1>3, <2>1, ClientFrame DEF BusInv
<1> QED
  BY <1>1, <1>2, <1>4 DEF BusInv

(* Leaving a variable alone is setting its entry to what it is. *)
LEMMA Untouched ==
  ASSUME TypeOK, NEW c \in Clients
  PROVE  /\ phase[c] \in Phases
         /\ queue[c] \in Seq(Ids) /\ Len(queue[c]) <= QueueSize /\ dropped[c] \in BOOLEAN
         /\ maxSent[c] \in 0 .. Len(stream) /\ lastEvent[c] \in 0 .. Len(stream)
         /\ known[c] \in SUBSET Ids /\ linger \in BOOLEAN
         /\ Len(stream) \in Nat /\ QueueSize \in Nat \ {0}
         /\ queue = [queue EXCEPT ![c] = queue[c]]
         /\ dropped = [dropped EXCEPT ![c] = dropped[c]]
         /\ maxSent = [maxSent EXCEPT ![c] = maxSent[c]]
         /\ lastEvent = [lastEvent EXCEPT ![c] = lastEvent[c]]
         /\ known = [known EXCEPT ![c] = known[c]]
  BY EventBusAssumption DEF TypeOK

(* What a connection is left with, when it ends, when it starts and when it only waits. *)
LEMMA ConnectionSteps ==
  ASSUME BusInv, NEW c \in Clients, Connect(c) \/ LetGo(c) \/ Disconnect(c) \/ Wait(c) \/ Ping(c)
  PROVE  BusInv'
<1>0. TypeOK /\ ClientInv(c) /\ Ids \in SUBSET Ids
  BY DEF BusInv
<1>1. ASSUME Leaves(c), NEW k \in SUBSET Ids, known' = [known EXCEPT ![c] = k],
             known[c] \subseteq k
      PROVE  BusInv'
  <2>1. /\ phase'[c] = "away" /\ queue'[c] = <<>> /\ dropped'[c] = FALSE /\ maxSent'[c] = 0
        /\ known'[c] = k /\ lastEvent' = lastEvent /\ read' = read
        /\ reader' = reader /\ lastId' = lastId /\ from' = from /\ stream' = stream
    BY <1>0, <1>1 DEF Leaves, TypeOK, readerVars
  <2>2. Position' = Position /\ \A i : Wants(c, i)' = Wants(c, i)
    BY <2>1 DEF Position, Wants
  <2>3. ClientInv(c)'
    BY <1>0, <1>1, <2>1, <2>2
    DEF ClientInv, ConnectionFresh, QueueAscends, NothingLost, Whole
  <2>4. OnlyMoves(c)
    <3>1. /\ phase' = [phase EXCEPT ![c] = "away"] /\ queue' = [queue EXCEPT ![c] = <<>>]
          /\ dropped' = [dropped EXCEPT ![c] = FALSE] /\ maxSent' = [maxSent EXCEPT ![c] = 0]
          /\ trimmed' = trimmed /\ linger' \in BOOLEAN
      BY <1>0, <1>1, Untouched DEF Leaves
    <3>2. <<>> \in Seq(Ids) /\ Len(<<>>) = 0 /\ 0 \in 0 .. Len(stream) /\ 0 <= QueueSize
          /\ "away" \in Phases
      BY <1>0, Untouched DEF Phases
    <3> QED
      BY <1>0, <1>1, <2>1, <3>1, <3>2, Untouched DEF OnlyMoves
  <2> QED
    BY <2>3, <2>4, OneClient
<1>2. CASE LetGo(c)
  BY <1>0, <1>1, <1>2, Untouched DEF LetGo
<1>3. CASE Disconnect(c)
  BY <1>0, <1>1, <1>3, Untouched DEF Disconnect
<1>4. ASSUME NEW p \in {"loop", "waiting", "replay"}, phase' = [phase EXCEPT ![c] = p],
             UNCHANGED <<stream, trimmed, lastId, from, read, queue, dropped, maxSent,
                         lastEvent, known>>,
             reader' = reader \/ (reader = "off" /\ reader' = "ready"),
             linger' \in BOOLEAN,
             p = "replay" => phase[c] = "away",
             p # "replay" => phase[c] \in {"loop", "waiting"}
      PROVE  BusInv'
  <2>1. phase'[c] = p
    BY <1>0, <1>4 DEF TypeOK
  <2>2. Position' = Position /\ \A i : Wants(c, i)' = Wants(c, i)
    BY <1>4 DEF Position, Wants, BusInv, ReaderIsPast, Latest
  <2>3. ClientInv(c)'
    BY <1>0, <1>4, <2>1, <2>2
    DEF ClientInv, ConnectionFresh, QueueAscends, NothingLost, Accounted, Whole
  <2>4. OnlyMoves(c)
    BY <1>0, <1>4, <2>1, Untouched DEF OnlyMoves, Phases
  <2> QED
    BY <2>3, <2>4, OneClient
<1>5. CASE Connect(c)
  BY <1>4, <1>5 DEF Connect, KeepReader
<1>6. CASE Wait(c) \/ Ping(c)
  BY <1>0, <1>4, <1>6, Untouched DEF Wait, Ping, readerVars
<1> QED
  BY <1>2, <1>3, <1>5, <1>6

(* The replay: a resync teaches all there is, a resumption all that came since. *)
LEMMA ReplayKeeps == ASSUME BusInv, NEW c \in Clients, Replay(c) PROVE BusInv'
<1>0. /\ TypeOK /\ ClientInv(c) /\ phase[c] = "replay" /\ maxSent[c] = 0
      /\ Ids = 1 .. Len(stream) /\ read \subseteq Ids /\ trimmed \in 0 .. Len(stream)
  BY DEF BusInv, TypeOK, Ids, ClientInv, ConnectionFresh, Replay
<1>1. /\ phase' = [phase EXCEPT ![c] = "loop"] /\ phase'[c] = "loop"
      /\ UNCHANGED <<stream, trimmed, reader, lastId, from, linger, queue, dropped, read>>
      /\ Position' = Position /\ Ids' = Ids /\ \A i : Wants(c, i)' = Wants(c, i)
  BY <1>0 DEF TypeOK, Replay, readerVars, Position, Ids, Wants
<1>2. CASE Reloads(c)
  <2>1. known' = [known EXCEPT ![c] = Ids] /\ known'[c] = Ids /\ UNCHANGED <<maxSent, lastEvent>>
    BY <1>0, <1>2 DEF Reloads, TypeOK
  <2>2. ClientInv(c)'
    BY <1>0, <1>1, <2>1, Untouched
    DEF ClientInv, ConnectionFresh, QueueAscends, NothingLost, Accounted, Whole
  <2>3. OnlyMoves(c)
    BY <1>0, <1>1, <2>1, Untouched DEF OnlyMoves, Phases
  <2> QED
    BY <2>2, <2>3, OneClient
<1>3. CASE lastEvent[c] # 0 /\ ~Gap(c) /\ Replays(c)
  <2> DEFINE news == Wanted(c, Missed(c))
  <2>1. /\ Len(stream) \in Nat /\ lastEvent[c] \in Ids
        /\ Missed(c) = lastEvent[c] + 1 .. Len(stream)
    BY <1>0, <1>3, Untouched DEF Missed, Gap
  <2>2. /\ news \in Seq(Ids) /\ Len(news) \in Nat
        /\ \A m \in 1 .. Len(news) : news[m] \in Missed(c) /\ Wants(c, news[m])
        /\ \A i \in Missed(c) : Wants(c, i) => i \in ToSet(news)
        /\ ToSet(news) \subseteq Ids
        /\ news # <<>> => Last(news) \in Ids
    <3>1. Missed(c) \in SUBSET Nat /\ IsFiniteSet(Missed(c)) /\ Missed(c) \subseteq Ids
      <4>1. lastEvent[c] + 1 \in Int /\ Len(stream) \in Int /\ lastEvent[c] \in Nat
        BY <1>0, <2>1
      <4>2. IsFiniteSet(lastEvent[c] + 1 .. Len(stream))
        BY <4>1, FS_Interval
      <4> QED
        BY <1>0, <2>1, <4>1, <4>2
    <3>2. /\ news \in Seq({i \in Missed(c) : Wants(c, i)})
          /\ \A i \in Missed(c) : Wants(c, i) => \E m \in 1 .. Len(news) : news[m] = i
      BY <3>1, WantedAscends
    <3> HIDE DEF news
    <3>3. /\ Len(news) \in Nat /\ DOMAIN news = 1 .. Len(news)
          /\ \A m \in 1 .. Len(news) : news[m] \in Missed(c) /\ Wants(c, news[m])
      BY <3>2
    <3>4. news \in Seq(Ids)
      BY <3>1, <3>2, <3>3
    <3>5. \A i : i \in ToSet(news) <=> \E m \in 1 .. Len(news) : news[m] = i
      BY <3>3 DEF ToSet
    <3>6. ASSUME news # <<>> PROVE Last(news) \in Ids
      <4>1. Len(news) \in 1 .. Len(news)
        BY <3>3, <3>4, <3>6, EmptySeq
      <4> QED
        BY <3>1, <3>3, <4>1 DEF Last
    <3> QED
      BY <3>1, <3>2, <3>3, <3>4, <3>5, <3>6
  <2>3. /\ known' = [known EXCEPT ![c] = known[c] \cup ToSet(news)]
        /\ news = <<>> => UNCHANGED <<maxSent, lastEvent>>
        /\ news # <<>> => /\ maxSent' = [maxSent EXCEPT ![c] = Last(news)]
                          /\ lastEvent' = [lastEvent EXCEPT ![c] = Last(news)]
    BY <1>3 DEF Replays
  <2> HIDE DEF news
  <2>4. /\ known'[c] = known[c] \cup ToSet(news) /\ known'[c] \in SUBSET Ids
        /\ lastEvent'[c] \in Ids /\ maxSent'[c] \in {0, lastEvent'[c]}
        /\ lastEvent' = [lastEvent EXCEPT ![c] = lastEvent'[c]]
        /\ maxSent' = [maxSent EXCEPT ![c] = maxSent'[c]]
    <3>1. known'[c] = known[c] \cup ToSet(news) /\ known'[c] \in SUBSET Ids
      BY <1>0, <2>2, <2>3 DEF TypeOK
    <3>2. CASE news = <<>>
      BY <1>0, <2>1, <2>3, <3>1, <3>2, Untouched
    <3>3. CASE news # <<>>
      BY <1>0, <2>2, <2>3, <3>1, <3>3 DEF TypeOK
    <3> QED
      BY <3>2, <3>3, <3>1
  <2>5. ASSUME NEW i \in Ids, Wants(c, i), i \in read \/ i > Position PROVE i \in known'[c]
    <3>1. CASE i \in 1 .. lastEvent[c]
      BY <1>0, <2>4, <2>5, <3>1 DEF ClientInv, Whole
    <3>2. CASE i \in Missed(c)
      BY <2>2, <2>4, <2>5, <3>2
    <3> QED
      BY <1>0, <2>1, <3>1, <3>2
  <2>6. ConnectionFresh(c)' /\ QueueAscends(c)'
    BY <1>0, <1>1, <2>4 DEF ClientInv, ConnectionFresh, QueueAscends
  <2>7. NothingLost(c)' /\ Whole(c)'
    <3>1. \A i \in 1 .. lastEvent'[c] : i \in Ids
      BY <1>0, <2>1, <2>4
    <3> QED
      BY <1>0, <1>1, <2>5, <3>1 DEF NothingLost, Accounted, Whole
  <2>8. OnlyMoves(c)
    <3>1. lastEvent'[c] \in 0 .. Len(stream) /\ maxSent'[c] \in 0 .. Len(stream)
      BY <1>0, <2>1, <2>4
    <3>2. known' = [known EXCEPT ![c] = known'[c]]
      BY <2>3, <2>4
    <3> QED
      BY <1>0, <1>1, <2>4, <3>1, <3>2, Untouched DEF OnlyMoves, Phases
  <2> QED
    BY <2>6, <2>7, <2>8, OneClient DEF ClientInv
<1> QED
  BY <1>2, <1>3 DEF Replay

(* A frame: the head of the queue is already known, or is the next thing to learn. *)
LEMMA SendKeeps == ASSUME BusInv, NEW c \in Clients, Send(c) PROVE BusInv'
<1> DEFINE q  == queue[c]
           ev == Head(q)
           r  == Tail(q)
<1>0. /\ TypeOK /\ ClientInv(c) /\ phase[c] = "waiting" /\ Ids = 1 .. Len(stream)
      /\ q \in Seq(Ids) /\ q # <<>> /\ read \subseteq Ids /\ Len(q) <= QueueSize
      /\ ReaderIsPast
  BY DEF BusInv, TypeOK, Ids, Send
<1>1. /\ phase' = [phase EXCEPT ![c] = "loop"] /\ phase'[c] = "loop"
      /\ queue' = [queue EXCEPT ![c] = r] /\ queue'[c] = r
      /\ UNCHANGED <<stream, trimmed, reader, lastId, from, linger, dropped, read>>
      /\ Position' = Position /\ Ids' = Ids /\ \A i : Wants(c, i)' = Wants(c, i)
  BY <1>0 DEF TypeOK, Send, readerVars, Position, Ids, Wants
<1>2. /\ Len(q) \in Nat \ {0} /\ DOMAIN q = 1 .. Len(q) /\ ev = q[1]
      /\ r \in Seq(Ids) /\ Len(r) = Len(q) - 1 /\ DOMAIN r = 1 .. Len(q) - 1
      /\ \A m \in 1 .. Len(q) - 1 : r[m] = q[m + 1]
  <2>1. Len(q) \in Nat /\ Len(q) # 0 /\ DOMAIN q = 1 .. Len(q)
    BY <1>0, EmptySeq
  <2>2. /\ ev = q[1] /\ r \in Seq(Ids) /\ Len(r) = Len(q) - 1
        /\ \A m \in 1 .. Len(r) : r[m] = q[m + 1]
    <3> HIDE DEF q
    <3>1. Head(q) = q[1] /\ Tail(q) \in Seq(Ids) /\ Len(Tail(q)) = Len(q) - 1
          /\ \A m \in 1 .. Len(Tail(q)) : Tail(q)[m] = q[m + 1]
      BY <1>0, <2>1, HeadTailProperties
    <3> QED
      BY <3>1
  <2> HIDE DEF r
  <2> QED
    BY <2>1, <2>2
<1>3. /\ ev \in read /\ Wants(c, ev) /\ ev \in Ids /\ ev <= Position
      /\ \A m \in 1 .. Len(q) : q[m] \in read /\ Wants(c, q[m]) /\ q[m] \in Ids
      /\ \A m, n \in 1 .. Len(q) : m < n => q[m] < q[n]
  <2>1. QueueAscends(c) /\ \A i \in read : i <= Position /\ i \in Ids
    BY <1>0 DEF ClientInv, ReaderIsPast
  <2>2. \A m \in 1 .. Len(q) : q[m] \in read /\ Wants(c, q[m]) /\ q[m] \in Ids
    BY <1>2, <2>1 DEF QueueAscends
  <2>3. \A m, n \in 1 .. Len(q) : m < n => q[m] < q[n]
    BY <1>2, <2>1 DEF QueueAscends
  <2>4. 1 \in 1 .. Len(q)
    BY <1>2
  <2> QED
    BY <1>2, <2>1, <2>2, <2>3, <2>4
<1> HIDE DEF r, ev
<1>4. QueueAscends(c)'
  <2>1. ASSUME NEW m \in 1 .. Len(q) - 1, NEW n \in 1 .. Len(q) - 1
        PROVE  /\ r[m] \in read /\ Wants(c, r[m])
               /\ m < n => r[m] < r[n]
    <3>1. /\ m + 1 \in 1 .. Len(q) /\ n + 1 \in 1 .. Len(q) /\ (m < n => m + 1 < n + 1)
          /\ r[m] = q[m + 1] /\ r[n] = q[n + 1]
      BY <1>2
    <3> QED
      BY <1>3, <3>1
  <2> QED
    BY <1>1, <1>2, <2>1 DEF QueueAscends
<1>r. queue' = [queue EXCEPT ![c] = queue'[c]] /\ queue'[c] \in Seq(Ids) /\ Len(queue'[c]) <= QueueSize
  <2>1. queue' = [queue EXCEPT ![c] = queue'[c]]
    BY <1>1
  <2>2. Len(r) <= QueueSize
    <3>1. Len(q) \in Nat /\ QueueSize \in Nat /\ Len(q) <= QueueSize /\ Len(r) = Len(q) - 1
      BY <1>0, <1>2, Untouched
    <3> QED
      BY <3>1
  <2> QED
    BY <1>1, <1>2, <2>1, <2>2
<1>5. ASSUME ev \in known'[c], known[c] \subseteq known'[c] PROVE NothingLost(c)'
  <2> SUFFICES ASSUME NEW i \in read, Wants(c, i) PROVE Accounted(c, i)'
    BY <1>1 DEF NothingLost
  <2>1. CASE i \in known[c]
    BY <1>5, <2>1 DEF Accounted
  <2>2. ASSUME NEW m \in 1 .. Len(q), q[m] = i PROVE Accounted(c, i)'
    <3>1. CASE m = 1
      BY <1>2, <1>5, <2>2, <3>1 DEF Accounted
    <3>2. CASE m # 1
      <4>1. m - 1 \in 1 .. Len(q) - 1 /\ (m - 1) + 1 = m
        BY <1>2, <3>2
      <4> QED
        BY <1>1, <1>2, <2>2, <4>1 DEF Accounted
    <3> QED
      BY <3>1, <3>2
  <2>3. CASE dropped[c] /\ \A m \in 1 .. Len(q) : q[m] < i
    <3>1. \A m \in 1 .. Len(q) - 1 : m + 1 \in 1 .. Len(q)
      BY <1>2
    <3> QED
      BY <1>1, <1>2, <2>3, <3>1 DEF Accounted
  <2>4. Accounted(c, i)
    BY <1>0 DEF ClientInv, NothingLost
  <2> QED
    BY <1>2, <2>1, <2>2, <2>3, <2>4 DEF Accounted
<1>6. CASE AlreadySent(c, ev)
  <2>1. UNCHANGED <<maxSent, lastEvent, known>>
    BY <1>6 DEF Send, ev
  <2>2. ev \in 1 .. lastEvent[c]
    BY <1>0, <1>3, <1>6, Untouched DEF AlreadySent, ClientInv, ConnectionFresh
  <2>3. ev \in known[c]
    BY <1>0, <1>3, <2>2 DEF ClientInv, Whole
  <2>4. ConnectionFresh(c)' /\ Whole(c)'
    BY <1>0, <1>1, <2>1 DEF ClientInv, ConnectionFresh, Whole
  <2>5. OnlyMoves(c)
    BY <1>0, <1>1, <1>r, <2>1, Untouched DEF OnlyMoves, Phases
  <2> QED
    BY <1>4, <1>5, <2>1, <2>3, <2>4, <2>5, OneClient DEF ClientInv
<1>7. CASE ~AlreadySent(c, ev)
  <2>1. /\ maxSent' = [maxSent EXCEPT ![c] = ev] /\ lastEvent' = [lastEvent EXCEPT ![c] = ev]
        /\ known' = [known EXCEPT ![c] = known[c] \cup {ev}]
    BY <1>7 DEF Send, ev
  <2>2. maxSent'[c] = ev /\ lastEvent'[c] = ev /\ known'[c] = known[c] \cup {ev}
    BY <1>0, <2>1 DEF TypeOK
  <2>3. ConnectionFresh(c)'
    BY <1>1, <2>2 DEF ConnectionFresh
  <2>4. Whole(c)'
    <3> SUFFICES ASSUME NEW i \in 1 .. ev, Wants(c, i), i \in read \/ i > Position
                 PROVE  i \in known'[c]
      BY <1>1, <2>2 DEF Whole
    <3>1. i \in read /\ i <= ev
      BY <1>0, <1>3, Untouched, SMTT(30) DEF ReaderIsPast, Position, TypeOK
    <3>2. Accounted(c, i)
      BY <1>0, <3>1 DEF ClientInv, NothingLost
    <3>3. ASSUME NEW m \in 1 .. Len(q), q[m] = i PROVE i = ev
      <4>1. m = 1 \/ (1 < m /\ 1 \in 1 .. Len(q))
        BY <1>2
      <4> QED
        BY <1>0, <1>2, <1>3, <3>1, <3>3, <4>1, SMTT(30)
    <3>4. ~ \A m \in 1 .. Len(q) : q[m] < i
      <4>1. 1 \in 1 .. Len(q) /\ ~(q[1] < i)
        BY <1>0, <1>2, <1>3, <3>1
      <4> QED
        BY <4>1
    <3> QED
      BY <1>2, <2>2, <3>2, <3>3, <3>4 DEF Accounted
  <2>5. OnlyMoves(c)
    <3>1. ev \in 0 .. Len(stream) /\ known[c] \cup {ev} \in SUBSET Ids
      BY <1>0, <1>3, Untouched
    <3> QED
      BY <1>0, <1>1, <1>r, <2>1, <2>2, <3>1, Untouched DEF OnlyMoves, Phases
  <2> QED
    BY <1>4, <1>5, <2>2, <2>3, <2>4, <2>5, OneClient DEF ClientInv
<1> QED
  BY <1>6, <1>7

(* A restart loses the connections, and with them their queues; the browsers keep what they
   know and where they were. *)
LEMMA RestartKeeps == ASSUME BusInv, Restart PROVE BusInv'
<1>0. TypeOK /\ ReaderIsPast /\ Len(stream) \in Nat /\ read \subseteq Ids /\ Ids = 1 .. Len(stream)
  BY DEF BusInv, TypeOK, Ids
<1>1. /\ reader' = "off" /\ lastId' = Latest /\ from' = 0 /\ linger' = FALSE
      /\ UNCHANGED <<stream, trimmed, lastEvent, known, read>>
      /\ Position' = Len(stream) /\ Ids' = Ids
  BY DEF Restart, StopReader, Position, Ids
<1>2. TypeOK'
  <2>1. /\ phase' = [c \in Clients |-> "away"] /\ queue' = [c \in Clients |-> <<>>]
        /\ dropped' = [c \in Clients |-> FALSE] /\ maxSent' = [c \in Clients |-> 0]
    BY DEF Restart
  <2>2. <<>> \in Seq(Ids) /\ Len(<<>>) <= QueueSize
    BY EventBusAssumption
  <2>3. queue' \in [Clients -> Seq(Ids)] /\ \A c \in Clients : Len(queue'[c]) <= QueueSize
    BY <2>1, <2>2
  <2>4. /\ phase' \in [Clients -> Phases] /\ dropped' \in [Clients -> BOOLEAN]
        /\ maxSent' \in [Clients -> 0 .. Len(stream)]
    BY <1>0, <2>1 DEF Phases
  <2>5. /\ reader' \in {"off", "ready", "reading"} /\ linger' \in BOOLEAN
        /\ lastId' \in 0 .. Len(stream) /\ from' \in 0 .. Len(stream)
    <3>1. 0 \in 0 .. Len(stream)
      BY <1>0
    <3> QED
      BY <1>1, <3>1 DEF Latest
  <2> QED
    BY <1>0, <1>1, <2>3, <2>4, <2>5 DEF TypeOK
<1>3. ReaderIsPast'
  BY <1>0, <1>1 DEF ReaderIsPast
<1>4. ASSUME NEW c \in Clients PROVE ClientInv(c)'
  <2>1. phase'[c] = "away" /\ queue'[c] = <<>> /\ dropped'[c] = FALSE /\ maxSent'[c] = 0
    BY DEF Restart
  <2>2. ClientInv(c) /\ lastEvent[c] \in 0 .. Len(stream)
    BY <1>0 DEF BusInv, TypeOK
  <2>3. Whole(c)'
    <3>1. \A i : Wants(c, i)' = Wants(c, i)
      BY <1>1 DEF Wants
    <3>2. \A i \in 1 .. lastEvent[c] : ~(i > Len(stream))
      BY <1>0, <2>2
    <3> QED
      BY <1>1, <2>2, <3>1, <3>2 DEF ClientInv, Whole
  <2> QED
    BY <2>1, <2>3 DEF ClientInv, ConnectionFresh, QueueAscends, NothingLost
<1> QED
  BY <1>2, <1>3, <1>4 DEF BusInv

LEMMA BusInvHolds == Spec => []BusInv
<1>1. Init => BusInv
  <2> SUFFICES ASSUME Init PROVE BusInv
    OBVIOUS
  <2>1. TypeOK
    <3>1. stream = <<>> /\ Len(stream) = 0 /\ stream \in Seq(Announced) /\ Ids = {}
      BY DEF Init, Ids
    <3>2. <<>> \in Seq(Ids) /\ Len(<<>>) <= QueueSize
      BY EventBusAssumption
    <3>3. queue \in [Clients -> Seq(Ids)] /\ \A c \in Clients : Len(queue[c]) <= QueueSize
      BY <3>2 DEF Init
    <3>4. /\ phase \in [Clients -> Phases] /\ dropped \in [Clients -> BOOLEAN]
          /\ maxSent \in [Clients -> 0 .. Len(stream)]
          /\ lastEvent \in [Clients -> 0 .. Len(stream)]
          /\ known \in [Clients -> SUBSET Ids] /\ read \subseteq Ids
      BY <3>1 DEF Init, Phases
    <3>5. /\ reader \in {"off", "ready", "reading"} /\ linger \in BOOLEAN
          /\ lastId \in 0 .. Len(stream) /\ from \in 0 .. Len(stream)
          /\ trimmed \in 0 .. Len(stream)
      <4>1. 0 \in 0 .. 0
        OBVIOUS
      <4> QED
        BY <3>1, <4>1 DEF Init, Latest
    <3> QED
      BY <3>1, <3>3, <3>4, <3>5 DEF TypeOK
  <2>2. ReaderIsPast
    BY DEF Init, ReaderIsPast
  <2>3. \A c \in Clients : ClientInv(c)
    BY DEF Init, ClientInv, ConnectionFresh, QueueAscends, NothingLost, Whole
  <2> QED
    BY <2>1, <2>2, <2>3 DEF BusInv
<1>2. BusInv /\ [Next]_vars => BusInv'
  <2> SUFFICES ASSUME BusInv, [Next]_vars PROVE BusInv'
    OBVIOUS
  <2> QED
    BY QuietSteps, EntriesKeep, ConnectionSteps, ReplayKeeps, SendKeeps, RestartKeeps
    DEF Next, NextReader, NextClient
<1> QED
  BY <1>1, <1>2, PTL DEF Spec

\* Rows of the model keep their types: no queue outgrows its size, no browser is ahead of
\* the stream or knows what was not published.
THEOREM BusTypeCorrect == Spec => []TypeOK
<1>1. BusInv => TypeOK
  BY DEF BusInv
<1> QED
  BY <1>1, BusInvHolds, PTL

\* For any browsers, channels, queue size, replay limit and retention: a browser that has
\* seen an event knows every earlier one it listens to that a reader fanned out, through
\* full queues, trimming, failing reads, reconnections and restarts.
THEOREM NoHoleInTheFeed == Spec => []NoHole
<1>1. BusInv => NoHole
  BY DEF BusInv, ClientInv, Whole, NoHole
<1> QED
  BY <1>1, BusInvHolds, PTL

\* A connection that has sent an event sends only later ones.
THEOREM FramesAscend == Spec => InOrderOnce
<1> DEFINE Onward == \A c \in Clients :
             phase[c] # "away" /\ maxSent[c] # 0 /\ lastEvent'[c] # lastEvent[c] =>
               lastEvent'[c] > lastEvent[c]
<1>1. BusInv /\ [Next]_vars => [Onward]_vars
  <2> SUFFICES ASSUME BusInv, [Next]_vars, NEW c \in Clients, phase[c] # "away",
                      maxSent[c] # 0, lastEvent'[c] # lastEvent[c]
               PROVE  lastEvent'[c] > lastEvent[c]
    OBVIOUS
  <2>0. /\ TypeOK /\ ClientInv(c) /\ lastEvent \in [Clients -> 0 .. Len(stream)]
        /\ maxSent[c] = lastEvent[c] /\ phase[c] # "replay"
    BY DEF BusInv, TypeOK, ClientInv, ConnectionFresh
  <2>1. PICK b \in Clients : Replay(b) \/ Send(b)
    BY DEF Next, NextReader, NextClient, Publish, XRead, Entries, BlockExpires, XReadFails,
       Connect, LetGo, Wait, Ping, Disconnect, Leaves, LingerEnds, Restart, vars, clientVars
  <2>2. ASSUME NEW e, lastEvent' = [lastEvent EXCEPT ![b] = e] PROVE b = c /\ lastEvent'[c] = e
    BY <2>0, <2>2
  <2>3. ~Replay(b)
    <3>1. Replay(b) => phase[b] = "replay"
                       /\ (UNCHANGED lastEvent \/ \E e : lastEvent' = [lastEvent EXCEPT ![b] = e])
      BY DEF Replay, Reloads, Replays
    <3> QED
      BY <2>0, <2>2, <3>1
  <2>4. Send(b) => ~(Head(queue[b]) <= maxSent[b])
                   /\ lastEvent' = [lastEvent EXCEPT ![b] = Head(queue[b])]
    BY DEF Send, AlreadySent
  <2>5. b = c /\ lastEvent'[c] = Head(queue[c]) /\ ~(Head(queue[c]) <= maxSent[c])
    BY <2>1, <2>2, <2>3, <2>4
  <2>6. Head(queue[c]) \in Int
    <3>1. queue[c] \in Seq(Ids) /\ queue[c] # <<>> /\ Ids \subseteq Int
      BY <2>0, <2>1, <2>3, <2>5 DEF TypeOK, Ids, Send
    <3> QED
      BY <3>1, HeadTailProperties
  <2> QED
    BY <2>0, <2>5, <2>6, Untouched
<1> QED
  BY <1>1, BusInvHolds, PTL DEF Spec, InOrderOnce

-----------------------------------------------------------------------------
(* Notices. *)

\* Notices counts with its own copy of the library's operators.
LEMMA CountsAlike ==
  \A S : N!Cardinality(S) = Cardinality(S) /\ (N!IsFiniteSet(S) <=> IsFiniteSet(S))
  BY DEF N!Cardinality, Cardinality, N!IsFiniteSet, IsFiniteSet

\* A set of numbers that is not empty has a first one.
LEMMA SomeFirst ==
  ASSUME NEW W \in SUBSET Nat, W # {}
  PROVE  \E w \in W : \A v \in W : w <= v
  <1> DEFINE Before(w) == {v \in W : v < w}
             T == {Before(w) : w \in W}
             R == StrictSubsetOrdering(W)
  <1>1. IsWellFoundedOn(R, FiniteSubsetsOf(W))
    BY FS_StrictSubsetOrderingWellFounded
  <1>2. T \subseteq FiniteSubsetsOf(W) /\ T # {}
    <2>1. ASSUME NEW w \in W PROVE Before(w) \in SUBSET W /\ IsFiniteSet(Before(w))
      <3>1. Before(w) \in SUBSET W /\ Before(w) \in SUBSET (0 .. w)
        <4>1. ASSUME NEW v \in W, v < w PROVE v \in 0 .. w
          <5>1. v \in Nat /\ w \in Nat
            OBVIOUS
          <5> QED BY <4>1, <5>1
        <4> QED BY <4>1
      <3>2. IsFiniteSet(0 .. w)
        BY FS_Interval
      <3> HIDE DEF Before
      <3> QED BY <3>1, <3>2, FS_Subset
    <2> HIDE DEF Before
    <2> QED BY <2>1 DEF FiniteSubsetsOf
  <1>3. PICK x \in T : \A y \in T : ~(<<y, x>> \in R)
    BY <1>1, <1>2, WFMin
  <1>4. PICK w \in W : x = Before(w)
    BY <1>3
  <1>5. ASSUME NEW v \in W, v < w PROVE FALSE
    <2>1. Before(v) \in T /\ Before(v) \in SUBSET W /\ x \in SUBSET W
      BY <1>4
    <2>2. Before(v) \subseteq x
      <3> SUFFICES ASSUME NEW u \in W, u < v PROVE u < w
        BY <1>4
      <3>1. u \in Nat /\ v \in Nat /\ w \in Nat
        OBVIOUS
      <3> QED BY <1>5, <3>1
    <2>3. v \in x /\ v \notin Before(v)
      <3>1. v \in Nat
        OBVIOUS
      <3> QED BY <1>4, <1>5, <3>1
    <2> QED BY <1>3, <2>1, <2>2, <2>3 DEF StrictSubsetOrdering
  <1> QED BY <1>5

\* The notices of S dated before n.
Earlier(S, n) == {m \in S : order[m] < order[n]}

\* Whoever is later in a finite set of notices has more of them before.
LEMMA LaterHasMore ==
  ASSUME NEW S \in SUBSET Facts, IsFiniteSet(S), order \in [Facts -> Nat],
         NEW m \in S, NEW n \in S, order[m] < order[n]
  PROVE  Cardinality(Earlier(S, m)) < Cardinality(Earlier(S, n))
<1>1. /\ Earlier(S, m) \cup {m} \in SUBSET Earlier(S, n) /\ m \notin Earlier(S, m)
      /\ Earlier(S, n) \in SUBSET S /\ Earlier(S, m) \in SUBSET S
  <2>1. order[m] \in Nat /\ order[n] \in Nat /\ \A k \in S : order[k] \in Nat
    OBVIOUS
  <2> QED BY <2>1 DEF Earlier
<1>2. IsFiniteSet(Earlier(S, n)) /\ IsFiniteSet(Earlier(S, m))
  BY <1>1, FS_Subset
<1>3. Cardinality(Earlier(S, m) \cup {m}) = Cardinality(Earlier(S, m)) + 1
  BY <1>1, <1>2, FS_AddElement
<1>4. Cardinality(Earlier(S, m) \cup {m}) <= Cardinality(Earlier(S, n))
  BY <1>1, <1>2, FS_Subset
<1>5. Cardinality(Earlier(S, m)) \in Nat /\ Cardinality(Earlier(S, n)) \in Nat
  BY <1>2, FS_CardinalityType
<1> QED BY <1>3, <1>4, <1>5

\* What a page leaves out comes after all it holds.
LEMMA PageIsOldest ==
  ASSUME N!WellFormed, NEW S \in SUBSET Facts, order \in [Facts -> Nat],
         NEW m \in N!PageOf(S), NEW n \in S \ N!PageOf(S)
  PROVE  order[m] <= order[n] /\ m \in S
<1>1. IsFiniteSet(S)
  BY CountsAlike, FS_Subset DEF N!WellFormed
<1>2. /\ m \in S /\ Cardinality(Earlier(S, m)) < Limit
      /\ ~(Cardinality(Earlier(S, n)) < Limit)
  BY CountsAlike DEF N!PageOf, Earlier
<1>3. Earlier(S, m) \in SUBSET S /\ Earlier(S, n) \in SUBSET S
  BY DEF Earlier
<1>4. Cardinality(Earlier(S, m)) \in Nat /\ Cardinality(Earlier(S, n)) \in Nat /\ Limit \in Nat
  BY <1>1, <1>3, FS_Subset, FS_CardinalityType DEF N!WellFormed
<1>5. order[m] \in Nat /\ order[n] \in Nat
  BY <1>2
<1>6. ASSUME order[n] < order[m] PROVE FALSE
  <2>1. Cardinality(Earlier(S, n)) < Cardinality(Earlier(S, m))
    BY <1>1, <1>2, <1>6, LaterHasMore
  <2> QED BY <2>1, <1>2, <1>4
<1> QED BY <1>2, <1>5, <1>6

\* A page that leaves something out is full.
LEMMA ShortPageIsAll ==
  ASSUME N!WellFormed, NEW S \in SUBSET Facts, order \in [Facts -> Nat],
         \A m, n \in S : order[m] = order[n] => m = n,
         N!Cardinality(N!PageOf(S)) # Limit
  PROVE  S \subseteq N!PageOf(S)
<1> SUFFICES ASSUME S \ N!PageOf(S) # {} PROVE FALSE
  OBVIOUS
<1> DEFINE page == N!PageOf(S)
           Out == {order[n] : n \in S \ page}
<1>1. IsFiniteSet(S) /\ Limit \in Nat \ {0}
  BY CountsAlike, FS_Subset DEF N!WellFormed
<1>2. page \in SUBSET S /\ \A n \in S : n \in page <=> Cardinality(Earlier(S, n)) < Limit
  BY CountsAlike DEF N!PageOf, Earlier
<1>3. IsFiniteSet(page) /\ Cardinality(page) \in Nat /\ Cardinality(page) # Limit
  BY <1>1, <1>2, CountsAlike, FS_Subset, FS_CardinalityType
<1>4. \A n \in S : Cardinality(Earlier(S, n)) \in Nat
  <2> TAKE n \in S
  <2>1. Earlier(S, n) \in SUBSET S
    BY DEF Earlier
  <2> QED BY <2>1, <1>1, FS_Subset, FS_CardinalityType
<1> HIDE DEF page
<1>5. Cardinality(page) <= Limit
  <2> DEFINE rank == [n \in page |-> Cardinality(Earlier(S, n))]
  <2>1. rank \in [page -> 0 .. Limit - 1]
    BY <1>1, <1>2, <1>4
  <2>2. ASSUME NEW m \in page, NEW n \in page, rank[m] = rank[n] PROVE m = n
    <3>1. m \in S /\ n \in S /\ order[m] \in Nat /\ order[n] \in Nat
      BY <1>2
    <3>2. ~(order[m] < order[n]) /\ ~(order[n] < order[m])
      <4>1. ASSUME order[m] < order[n] PROVE FALSE
        BY <4>1, <3>1, <1>1, <1>4, <2>2, LaterHasMore
      <4>2. ASSUME order[n] < order[m] PROVE FALSE
        BY <4>2, <3>1, <1>1, <1>4, <2>2, LaterHasMore
      <4> QED BY <4>1, <4>2
    <3>3. order[m] = order[n]
      BY <3>1, <3>2
    <3> QED BY <3>1, <3>3
  <2> HIDE DEF rank
  <2>3. rank \in Injection(page, 0 .. Limit - 1)
    BY <2>1, <2>2 DEF Injection, IsInjective
  <2>4. IsFiniteSet(0 .. Limit - 1) /\ Cardinality(0 .. Limit - 1) = Limit
    <3>1. 0 \in Int /\ Limit - 1 \in Int /\ ~(0 > Limit - 1) /\ Limit - 1 - 0 + 1 = Limit
      BY <1>1
    <3>2. /\ IsFiniteSet(0 .. Limit - 1)
          /\ Cardinality(0 .. Limit - 1) = Limit - 1 - 0 + 1
      BY <3>1, FS_Interval
    <3> QED BY <3>1, <3>2
  <2> QED BY <2>3, <2>4, FS_Injection
<1>6. PICK n \in S \ page : \A k \in S \ page : order[n] <= order[k]
  <2>1. Out \in SUBSET Nat /\ Out # {}
    BY DEF page
  <2>2. PICK w \in Out : \A v \in Out : w <= v
    BY <2>1, SomeFirst
  <2> QED BY <2>2
<1>7. Earlier(S, n) \in SUBSET page
  <2> SUFFICES ASSUME NEW k \in S, order[k] < order[n], k \notin page PROVE FALSE
    BY DEF Earlier
  <2>1. order[n] <= order[k] /\ order[n] \in Nat /\ order[k] \in Nat
    BY <1>6
  <2> QED BY <2>1
<1>8. Cardinality(Earlier(S, n)) <= Cardinality(page) /\ ~(Cardinality(Earlier(S, n)) < Limit)
  BY <1>2, <1>3, <1>6, <1>7, FS_Subset
<1> QED
  BY <1>1, <1>3, <1>4, <1>5, <1>6, <1>8

\* What a request that goes on leaves alone.
NoticeRows == <<order, row, purged, before, screen>>

\* A request that goes on, or dies, after its transaction has begun.
LEMMA JobGoesOn ==
  ASSUME N!WellFormed, N!IInv, NEW f \in Facts, NEW j \in N!JobRow,
         DOMAIN job' = Facts, job'[f] = j, \A g \in Facts \ {f} : job'[g] = job[g],
         job' = [g \in Facts |-> job'[g]], N!ToldOrTrying(j, Enabled[f]),
         job[f].at # "fact", j.at \notin {"fact", "open"},
         active' \subseteq Devices, UNCHANGED NoticeRows
  PROVE  N!IInv'
<1>1. /\ job' \in [Facts -> N!JobRow] /\ job'[f] = j
      /\ \A g \in Facts \ {f} : job'[g] = job[g]
  BY DEF N!IInv
<1>2. /\ order' = order /\ row' = row /\ purged' = purged /\ before' = before
      /\ screen' = screen
  BY DEF NoticeRows
<1>3. \A g \in Facts : N!ToldOrTrying(job'[g], Enabled[g])
  BY <1>1 DEF N!IInv
<1>4. N!InOrder'
  <2>1. N!Dated' = N!Dated /\ N!Stored' = N!Stored
    BY <1>2 DEF N!Dated, N!Stored
  <2>2. /\ order' \in [Facts -> Nat] /\ \A g \in Facts : order'[g] <= N!Cardinality(N!Dated')
        /\ \A g, h \in N!Dated' : order'[g] = order'[h] => g = h
        /\ N!Stored' \subseteq Facts /\ before' \in [Facts -> SUBSET Facts]
    BY <1>2, <2>1 DEF N!IInv, N!InOrder
  <2>3. ASSUME NEW g \in Facts
        PROVE  /\ order'[g] = 0 <=> job'[g].at = "fact"
               /\ g \in N!Stored' => job'[g].at \notin {"fact", "open"}
               /\ \A h \in before'[g] : h \in N!Dated' /\ order'[h] < order'[g]
    <3>1. /\ order[g] = 0 <=> job[g].at = "fact"
          /\ g \in N!Stored => job[g].at \notin {"fact", "open"}
          /\ \A h \in before[g] : h \in N!Dated /\ order[h] < order[g]
      BY DEF N!IInv, N!InOrder
    <3>2. CASE g = f
      BY <1>1, <1>2, <2>1, <3>1, <3>2
    <3>3. CASE g # f
      BY <1>1, <1>2, <2>1, <3>1, <3>3
    <3> QED BY <3>2, <3>3
  <2> QED BY <2>2, <2>3 DEF N!InOrder
<1>5. N!Owed'
  BY <1>2 DEF N!IInv, N!Owed, N!Stored, N!Away
<1> QED BY <1>1, <1>2, <1>3, <1>4, <1>5 DEF N!IInv

\* The channels that are left to try, and those that were.
LEMMA TellsKeeps ==
  ASSUME N!WellFormed, N!IInv, NEW f \in Facts, NEW c \in NoticeChannels, N!Tells(f, c)
  PROVE  N!IInv'
<1> DEFINE j == job[f]
           k == [at |-> "stored", todo |-> j.todo \ {c}, left |-> j.left, gone |-> j.gone,
                 tried |-> j.tried \cup {c}, due |-> j.due]
<1>1. j \in N!JobRow /\ N!ToldOrTrying(j, Enabled[f]) /\ job \in [Facts -> N!JobRow]
  BY DEF N!IInv
<1>2. /\ j.at = "stored" /\ c \in j.todo \ {Push}
      /\ job' = [job EXCEPT ![f].todo = @ \ {c}, ![f].tried = @ \cup {c}]
      /\ UNCHANGED <<order, row, purged, before, active, screen>>
  BY DEF N!Tells, N!Left
<1>3. k \in N!JobRow
  BY <1>1, <1>2 DEF N!JobRow
<1>4. DOMAIN job' = Facts /\ job'[f] = k /\ \A g \in Facts \ {f} : job'[g] = job[g]
  BY <1>1, <1>2, <1>3 DEF N!JobRow
<1>5. job' = [g \in Facts |-> job'[g]]
  BY <1>1, <1>2
<1>6. N!ToldOrTrying(k, Enabled[f]) /\ k.at = "stored"
  BY <1>1, <1>2 DEF N!ToldOrTrying
<1> HIDE DEF k
<1> QED
  BY <1>2, <1>3, <1>4, <1>5, <1>6, JobGoesOn DEF NoticeRows, N!IInv

\* The subscriptions that are active are due.
LEMMA PushBeginsKeeps ==
  ASSUME N!WellFormed, N!IInv, NEW f \in Facts, N!PushBegins(f)
  PROVE  N!IInv'
<1> DEFINE j == job[f]
           k == [at |-> "push", todo |-> j.todo \ {Push}, left |-> active, gone |-> j.gone,
                 tried |-> j.tried \cup {Push}, due |-> active]
<1>1. /\ j \in N!JobRow /\ N!ToldOrTrying(j, Enabled[f]) /\ job \in [Facts -> N!JobRow]
      /\ active \subseteq Devices
  BY DEF N!IInv
<1>2. /\ j.at = "stored" /\ Push \in j.todo
      /\ job' = [job EXCEPT ![f].at = "push", ![f].todo = @ \ {Push},
                   ![f].tried = @ \cup {Push}, ![f].left = active, ![f].due = active]
      /\ UNCHANGED <<order, row, purged, before, active, screen>>
  BY DEF N!PushBegins
<1>3. k \in N!JobRow
  BY <1>1, <1>2 DEF N!JobRow
<1>4. DOMAIN job' = Facts /\ job'[f] = k /\ \A g \in Facts \ {f} : job'[g] = job[g]
  BY <1>1, <1>2, <1>3 DEF N!JobRow
<1>5. job' = [g \in Facts |-> job'[g]]
  BY <1>1, <1>2
<1>6. N!ToldOrTrying(k, Enabled[f]) /\ k.at = "push"
  BY <1>1, <1>2 DEF N!ToldOrTrying
<1> HIDE DEF k
<1> QED
  BY <1>1, <1>2, <1>3, <1>4, <1>5, <1>6, JobGoesOn DEF NoticeRows

\* The subscriptions that are left, whatever each answers.
LEMMA PushesToKeeps ==
  ASSUME N!WellFormed, N!IInv, NEW f \in Facts, NEW d \in Devices, N!PushesTo(f, d)
  PROVE  N!IInv'
<1> DEFINE j == job[f]
<1>1. /\ j \in N!JobRow /\ N!ToldOrTrying(j, Enabled[f]) /\ job \in [Facts -> N!JobRow]
  BY DEF N!IInv
<1>2. /\ j.at = "push" /\ d \in j.left
      /\ UNCHANGED <<order, row, purged, before, active, screen>>
  BY DEF N!PushesTo
<1>3. PICK answer \in {"taken", "gone", "fails"} :
        job' = [job EXCEPT ![f].left = @ \ {d}, ![f].tried = @ \cup {d},
                           ![f].gone = IF answer = "gone" THEN @ \cup {d} ELSE @]
  BY DEF N!PushesTo, N!Left
<1>4. PICK G \in SUBSET Devices : G = IF answer = "gone" THEN j.gone \cup {d} ELSE j.gone
  BY <1>1 DEF N!JobRow
<1> DEFINE k == [at |-> "push", todo |-> j.todo, left |-> j.left \ {d}, gone |-> G,
                 tried |-> j.tried \cup {d}, due |-> j.due]
<1>5. k \in N!JobRow
  BY <1>1, <1>2 DEF N!JobRow
<1>6. DOMAIN job' = Facts /\ job'[f] = k /\ \A g \in Facts \ {f} : job'[g] = job[g]
  BY <1>1, <1>2, <1>3, <1>4, <1>5 DEF N!JobRow
<1>7. job' = [g \in Facts |-> job'[g]]
  BY <1>1, <1>3
<1>8. N!ToldOrTrying(k, Enabled[f]) /\ k.at = "push"
  BY <1>1, <1>2 DEF N!ToldOrTrying
<1> HIDE DEF k
<1> QED
  BY <1>1, <1>2, <1>5, <1>6, <1>7, <1>8, JobGoesOn DEF NoticeRows, N!IInv

\* Those that are gone are switched off.
LEMMA PushEndsKeeps ==
  ASSUME N!WellFormed, N!IInv, NEW f \in Facts, N!PushEnds(f)
  PROVE  N!IInv'
<1> DEFINE j == job[f]
           k == [at |-> "stored", todo |-> j.todo, left |-> j.left, gone |-> j.gone,
                 tried |-> j.tried, due |-> j.due]
<1>1. /\ j \in N!JobRow /\ N!ToldOrTrying(j, Enabled[f]) /\ job \in [Facts -> N!JobRow]
      /\ active \subseteq Devices
  BY DEF N!IInv
<1>2. /\ j.at = "push" /\ j.left = {} /\ active' = active \ j.gone
      /\ job' = [job EXCEPT ![f].at = "stored"]
      /\ UNCHANGED <<order, row, purged, before, screen>>
  BY DEF N!PushEnds
<1>3. k \in N!JobRow
  BY <1>1 DEF N!JobRow
<1>4. DOMAIN job' = Facts /\ job'[f] = k /\ \A g \in Facts \ {f} : job'[g] = job[g]
  BY <1>1, <1>2, <1>3 DEF N!JobRow
<1>5. job' = [g \in Facts |-> job'[g]]
  BY <1>1, <1>2
<1>6. N!ToldOrTrying(k, Enabled[f]) /\ k.at = "stored"
  BY <1>1, <1>2 DEF N!ToldOrTrying
<1> HIDE DEF k
<1> QED
  BY <1>1, <1>2, <1>3, <1>4, <1>5, <1>6, JobGoesOn DEF NoticeRows

\* A request that is done, or dies, has nothing left to try.
LEMMA JobEndsKeeps ==
  ASSUME N!WellFormed, N!IInv, NEW f \in Facts, N!Ends(f) \/ N!Dies(f)
  PROVE  N!IInv'
<1>1. PICK a \in {"done", "dead"} : job' = [job EXCEPT ![f] = [N!NoJob EXCEPT !.at = a]]
  BY DEF N!Ends, N!Dies
<1>2. job[f].at # "fact" /\ UNCHANGED <<order, row, purged, before, active, screen>>
  BY DEF N!Ends, N!Dies, N!Handed
<1> DEFINE k == [at |-> a, todo |-> {}, left |-> {}, gone |-> {}, tried |-> {}, due |-> {}]
<1>3. [N!NoJob EXCEPT !.at = a] = k
  BY DEF N!NoJob
<1>4. k \in N!JobRow /\ N!ToldOrTrying(k, Enabled[f]) /\ k.at = a
  BY DEF N!JobRow, N!ToldOrTrying
<1> HIDE DEF k
<1>5. /\ DOMAIN job' = Facts /\ job'[f] = k /\ \A g \in Facts \ {f} : job'[g] = job[g]
      /\ job' = [g \in Facts |-> job'[g]]
  BY <1>1, <1>3 DEF N!IInv
<1> QED
  BY <1>2, <1>4, <1>5, JobGoesOn DEF NoticeRows, N!IInv

\* A transaction that begins is dated after all those that have begun.
LEMMA OpensKeeps ==
  ASSUME N!WellFormed, N!IInv, NEW f \in Facts, N!Opens(f)
  PROVE  N!IInv'
<1> DEFINE K == Cardinality(N!Dated)
           k == [at |-> "open", todo |-> {}, left |-> {}, gone |-> {}, tried |-> {}, due |-> {}]
<1>1. /\ job[f].at = "fact" /\ job' = [job EXCEPT ![f].at = "open"]
      /\ order' = [order EXCEPT ![f] = 1 + K]
      /\ before' = [before EXCEPT ![f] = N!Stored]
      /\ UNCHANGED <<row, purged, active, screen>>
  BY CountsAlike DEF N!Opens, N!Dated
<1>2. /\ order \in [Facts -> Nat] /\ \A g \in Facts : order[g] <= K
      /\ \A g, h \in N!Dated : order[g] = order[h] => g = h
      /\ N!Stored \subseteq Facts /\ before \in [Facts -> SUBSET Facts]
      /\ \A g \in Facts : /\ order[g] = 0 <=> job[g].at = "fact"
                          /\ g \in N!Stored => job[g].at \notin {"fact", "open"}
                          /\ \A h \in before[g] : h \in N!Dated /\ order[h] < order[g]
  BY CountsAlike DEF N!IInv, N!InOrder
<1>3. order[f] = 0 /\ f \notin N!Dated /\ f \notin N!Stored
  BY <1>1, <1>2 DEF N!Dated
<1>4. IsFiniteSet(N!Dated) /\ K \in Nat
  BY CountsAlike, FS_Subset, FS_CardinalityType DEF N!Dated, N!WellFormed
<1> HIDE DEF K
<1>5. /\ order' \in [Facts -> Nat] /\ order'[f] = 1 + K
      /\ \A g \in Facts \ {f} : order'[g] = order[g]
  BY <1>1, <1>2, <1>4
<1>6. N!Dated' = N!Dated \cup {f}
  BY <1>4, <1>5 DEF N!Dated
<1>7. Cardinality(N!Dated') = 1 + K
  <2>1. Cardinality(N!Dated \cup {f}) = K + 1
    BY <1>3, <1>4, FS_AddElement DEF K
  <2> QED BY <2>1, <1>4, <1>6
<1>8. N!Stored' = N!Stored
  BY <1>1 DEF N!Stored
<1>9. job[f] \in N!JobRow /\ job[f] = [N!NoJob EXCEPT !.at = "fact"]
  BY <1>1 DEF N!IInv, N!ToldOrTrying
<1>10. /\ k \in N!JobRow /\ N!ToldOrTrying(k, Enabled[f]) /\ k.at = "open"
  BY DEF N!JobRow, N!ToldOrTrying, N!NoJob
<1>11. /\ job' = [g \in Facts |-> job'[g]] /\ job'[f] = k
       /\ \A g \in Facts \ {f} : job'[g] = job[g]
  BY <1>1, <1>9 DEF N!IInv, N!JobRow, N!NoJob
<1> HIDE DEF k
<1>12. job' \in [Facts -> N!JobRow] /\ \A g \in Facts : N!ToldOrTrying(job'[g], Enabled[g])
  BY <1>10, <1>11 DEF N!IInv
<1>13. /\ before' \in [Facts -> SUBSET Facts] /\ before'[f] = N!Stored
       /\ \A g \in Facts \ {f} : before'[g] = before[g]
  BY <1>1, <1>2
<1>14. ASSUME NEW g \in Facts
       PROVE  /\ order'[g] = 0 <=> job'[g].at = "fact"
              /\ g \in N!Stored' => job'[g].at \notin {"fact", "open"}
              /\ \A h \in before'[g] : h \in N!Dated' /\ order'[h] < order'[g]
  <2>1. CASE g = f
    <3>1. ASSUME NEW h \in N!Stored PROVE h \in N!Dated' /\ order'[h] < order'[f]
      <4>1. h \in Facts /\ h # f /\ order[h] # 0 /\ order[h] <= K /\ order[h] \in Nat
        BY <1>2, <1>3
      <4> QED BY <4>1, <1>4, <1>5, <1>6 DEF N!Dated
    <3> QED
      BY <2>1, <3>1, <1>3, <1>4, <1>5, <1>8, <1>10, <1>11, <1>13
  <2>2. CASE g # f
    BY <2>2, <1>2, <1>3, <1>5, <1>6, <1>8, <1>11, <1>13 DEF N!Dated
  <2> QED BY <2>1, <2>2
<1>15. ASSUME NEW g \in Facts PROVE order'[g] <= Cardinality(N!Dated')
  <2>1. order[g] <= K /\ order[g] \in Nat
    BY <1>2
  <2> QED BY <2>1, <1>4, <1>5, <1>7
<1>16. ASSUME NEW g \in N!Dated', NEW h \in N!Dated', order'[g] = order'[h] PROVE g = h
  <2>1. g \in Facts /\ h \in Facts
    BY <1>3, <1>6 DEF N!Dated
  <2>2. order[g] <= K /\ order[h] <= K /\ order[g] \in Nat /\ order[h] \in Nat
    BY <1>2, <2>1
  <2> QED BY <1>2, <1>4, <1>5, <1>6, <1>16, <2>1, <2>2
<1>17. N!InOrder'
  BY <1>2, <1>5, <1>8, <1>13, <1>14, <1>15, <1>16, CountsAlike DEF N!InOrder
<1>18. N!Owed'
  <2> SUFFICES ASSUME screen # N!Away
               PROVE  \A n \in screen.owed \cap row : order'[screen.ref] < order'[n]
    BY <1>1, <1>8 DEF N!IInv, N!Owed, N!Away
  <2>1. /\ screen.ref \in N!Stored /\ screen.owed \subseteq N!Stored
        /\ \A n \in screen.owed \cap row : order[screen.ref] < order[n]
    BY DEF N!IInv, N!Owed
  <2> QED BY <2>1, <1>2, <1>3, <1>5
<1> QED
  BY <1>1, <1>12, <1>17, <1>18 DEF N!IInv

\* A notice that commits was begun, and nobody is owed it yet.
LEMMA StoresKeeps ==
  ASSUME N!WellFormed, N!IInv, NEW f \in Facts, N!Stores(f)
  PROVE  N!IInv'
<1> DEFINE k == [at |-> "stored", todo |-> Enabled[f], left |-> {}, gone |-> {}, tried |-> {},
                 due |-> {}]
<1>1. /\ job[f].at = "open"
      /\ job' = [job EXCEPT ![f].at = "stored", ![f].todo = Enabled[f]]
      /\ row' = row \cup {f}
      /\ UNCHANGED <<order, purged, before, active, screen>>
  BY DEF N!Stores
<1>2. job[f] \in N!JobRow /\ job[f] = [N!NoJob EXCEPT !.at = "open"]
  BY <1>1 DEF N!IInv, N!ToldOrTrying
<1>3. k \in N!JobRow /\ N!ToldOrTrying(k, Enabled[f]) /\ k.at = "stored"
  BY DEF N!JobRow, N!ToldOrTrying, N!WellFormed
<1>4. /\ job' = [g \in Facts |-> job'[g]] /\ job'[f] = k
      /\ \A g \in Facts \ {f} : job'[g] = job[g]
  <2>1. /\ job[f].left = {} /\ job[f].gone = {} /\ job[f].tried = {} /\ job[f].due = {}
    BY <1>2 DEF N!NoJob
  <2> QED BY <1>1, <1>2, <1>3, <2>1 DEF N!IInv, N!JobRow
<1> HIDE DEF k
<1>5. job' \in [Facts -> N!JobRow] /\ \A g \in Facts : N!ToldOrTrying(job'[g], Enabled[g])
  BY <1>3, <1>4 DEF N!IInv
<1>6. /\ order \in [Facts -> Nat] /\ \A g \in Facts : order[g] <= N!Cardinality(N!Dated)
      /\ \A g, h \in N!Dated : order[g] = order[h] => g = h
      /\ N!Stored \subseteq Facts /\ before \in [Facts -> SUBSET Facts]
      /\ \A g \in Facts : /\ order[g] = 0 <=> job[g].at = "fact"
                          /\ g \in N!Stored => job[g].at \notin {"fact", "open"}
                          /\ \A h \in before[g] : h \in N!Dated /\ order[h] < order[g]
  BY DEF N!IInv, N!InOrder
<1>7. N!Dated' = N!Dated /\ N!Stored' = N!Stored \cup {f} /\ f \notin N!Stored
  BY <1>1, <1>6 DEF N!Dated, N!Stored
<1>8. ASSUME NEW g \in Facts
      PROVE  /\ order'[g] = 0 <=> job'[g].at = "fact"
             /\ g \in N!Stored' => job'[g].at \notin {"fact", "open"}
             /\ \A h \in before'[g] : h \in N!Dated' /\ order'[h] < order'[g]
  <2>1. CASE g = f
    BY <2>1, <1>1, <1>3, <1>4, <1>6, <1>7
  <2>2. CASE g # f
    BY <2>2, <1>1, <1>4, <1>6, <1>7
  <2> QED BY <2>1, <2>2
<1>9. N!InOrder'
  BY <1>1, <1>6, <1>7, <1>8 DEF N!InOrder
<1>10. N!Owed'
  BY <1>1, <1>7 DEF N!IInv, N!Owed, N!Away
<1> QED
  BY <1>1, <1>5, <1>9, <1>10 DEF N!IInv

\* Subscriptions come and go; notices are purged; a screen comes back.
LEMMA RestKeeps ==
  ASSUME N!WellFormed, N!IInv, UNCHANGED <<job, order, before>>,
         \/ /\ active' \subseteq Devices /\ UNCHANGED <<row, purged, screen>>
         \/ /\ \E S \in SUBSET row : row' = row \ S /\ purged' = purged \cup S
            /\ UNCHANGED <<active, screen>>
         \/ /\ \E x \in Facts : x \in N!Stored
                 /\ screen' = [ref |-> x, owed |-> {n \in row : x \in before[n]}]
            /\ UNCHANGED <<row, purged, active>>
         \/ /\ screen' = N!Away /\ UNCHANGED <<row, purged, active>>
         \/ /\ \E x \in row, E \in SUBSET N!Stored :
                 /\ screen' = [ref |-> x, owed |-> E]
                 /\ \A n \in E \cap row : order[x] < order[n]
            /\ UNCHANGED <<row, purged, active>>
  PROVE  N!IInv'
<1>1. N!InOrder /\ N!Owed /\ N!Stored \subseteq Facts /\ row \subseteq N!Stored
  BY DEF N!IInv, N!InOrder, N!Stored
<1>2. N!Stored' = N!Stored /\ N!Dated' = N!Dated
  BY DEF N!Stored, N!Dated
<1>3. N!InOrder'
  BY <1>1, <1>2 DEF N!InOrder
<1>4. active' \subseteq Devices /\ screen'.ref \in Facts \cup {None}
  BY <1>1 DEF N!IInv, N!Away
<1>5. row' \subseteq row /\ order' = order
  OBVIOUS
<1>6. N!Owed'
  <2>1. CASE UNCHANGED screen
    BY <2>1, <1>1, <1>2, <1>5 DEF N!Owed, N!Away
  <2>2. ASSUME NEW x \in Facts, x \in N!Stored, row' = row,
               screen' = [ref |-> x, owed |-> {n \in row : x \in before[n]}]
        PROVE  N!Owed'
    <3>1. \A n \in row : x \in before[n] => order[x] < order[n]
      BY <1>1 DEF N!InOrder
    <3> QED BY <2>2, <3>1, <1>1, <1>2, <1>5 DEF N!Owed
  <2>3. CASE screen' = N!Away
    BY <2>3 DEF N!Owed, N!Away
  <2>4. ASSUME NEW x \in row, NEW E \in SUBSET N!Stored, row' = row,
               screen' = [ref |-> x, owed |-> E], \A n \in E \cap row : order[x] < order[n]
        PROVE  N!Owed'
    BY <2>4, <1>1, <1>2, <1>5 DEF N!Owed
  <2> QED BY <2>1, <2>2, <2>3, <2>4
<1> QED
  BY <1>3, <1>4, <1>6 DEF N!IInv

\* A page that is full has a last notice, and what is still owed is dated after it.
LEMMA FullPage ==
  ASSUME N!WellFormed, N!IInv, screen # N!Away, NEW page, page = N!PageOf(N!Newer(screen.ref)),
         N!Cardinality(page) = Limit
  PROVE  /\ N!LastOf(page) \in row
         /\ \A n \in (screen.owed \ page) \cap row : order[N!LastOf(page)] < order[n]
<1> DEFINE S == N!Newer(screen.ref)
           K == Cardinality(N!Dated)
           W == {K - order[n] : n \in page}
<1>1. /\ order \in [Facts -> Nat] /\ \A g \in Facts : order[g] <= K
      /\ \A g, h \in N!Dated : order[g] = order[h] => g = h
      /\ N!Stored \subseteq Facts /\ N!Stored \subseteq N!Dated
      /\ screen.owed \subseteq N!Stored
      /\ \A n \in screen.owed \cap row : order[screen.ref] < order[n]
  BY CountsAlike DEF N!IInv, N!InOrder, N!Owed, N!Dated
<1>2. K \in Nat
  BY CountsAlike, FS_Subset, FS_CardinalityType DEF N!Dated, N!WellFormed
<1>3. S \in SUBSET row /\ page \in SUBSET S /\ row \subseteq N!Stored
  BY DEF N!Newer, N!PageOf, N!Stored
<1>4. \A n \in screen.owed \cap row : n \in S
  BY <1>1 DEF N!Newer
<1>5. page # {}
  <2>1. Cardinality(page) # 0
    BY CountsAlike DEF N!WellFormed
  <2> QED BY <2>1, FS_EmptySet
<1> HIDE DEF S, K
<1>6. PICK l \in page : \A m \in page : order[m] <= order[l]
  <2>1. W \in SUBSET Nat /\ W # {}
    <3>1. ASSUME NEW n \in page PROVE K - order[n] \in Nat
      <4>1. n \in Facts /\ order[n] \in Nat /\ order[n] <= K
        BY <1>1, <1>3
      <4> QED BY <4>1, <1>2
    <3> QED BY <3>1, <1>5
  <2>2. PICK w \in W : \A v \in W : w <= v
    <3> HIDE DEF W
    <3> QED BY <2>1, SomeFirst
  <2>3. PICK l \in page : w = K - order[l]
    BY <2>2
  <2>4. ASSUME NEW m \in page PROVE order[m] <= order[l]
    <3>1. w <= K - order[m]
      BY <2>2
    <3>2. order[m] \in Nat /\ order[l] \in Nat
      BY <1>1, <1>3
    <3> QED BY <3>1, <3>2, <2>3, <1>2
  <2> QED BY <2>4
<1>7. N!LastOf(page) \in page
  BY <1>6 DEF N!LastOf
<1>8. ASSUME NEW n \in (screen.owed \ page) \cap row
      PROVE  order[N!LastOf(page)] < order[n]
  <2>1. n \in S \ page /\ S \in SUBSET Facts
    BY <1>1, <1>3, <1>4
  <2>2. PICK m \in page : m = N!LastOf(page)
    BY <1>7
  <2>3. order[m] <= order[n]
    BY <2>1, <1>1, PageIsOldest DEF S
  <2>4. m # n /\ m \in N!Dated /\ n \in N!Dated /\ m \in Facts /\ n \in Facts
    BY <2>1, <1>1, <1>3
  <2>5. order[m] # order[n] /\ order[m] \in Nat /\ order[n] \in Nat
    BY <2>4, <1>1
  <2> QED BY <2>2, <2>3, <2>5
<1> QED
  BY <1>3, <1>7, <1>8

\* A page that is not full is all there is, so that what is owed is in it.
LEMMA ReadsKeeps ==
  ASSUME N!WellFormed, N!IInv, N!Reads
  PROVE  N!IInv' /\ N!Recovered
<1> DEFINE page == N!PageOf(N!Newer(screen.ref))
<1>1. /\ screen # N!Away /\ UNCHANGED <<job, order, row, purged, before, active>>
      /\ screen' = IF N!Cardinality(page) = Limit
                   THEN [ref |-> N!LastOf(page), owed |-> screen.owed \ page] ELSE N!Away
  BY DEF N!Reads
<1>2. /\ order \in [Facts -> Nat] /\ N!Stored \subseteq Facts /\ row \subseteq N!Stored
      /\ \A g, h \in N!Stored : order[g] = order[h] => g = h
      /\ screen.owed \subseteq N!Stored
      /\ \A n \in screen.owed \cap row : order[screen.ref] < order[n]
  BY <1>1 DEF N!IInv, N!InOrder, N!Owed, N!Dated, N!Stored
<1>3. CASE N!Cardinality(page) = Limit
  <2>1. /\ N!LastOf(page) \in row
        /\ \A n \in (screen.owed \ page) \cap row : order[N!LastOf(page)] < order[n]
    BY <1>1, <1>3, FullPage
  <2>2. screen' = [ref |-> N!LastOf(page), owed |-> screen.owed \ page]
    BY <1>1, <1>3
  <2> HIDE DEF page
  <2>3. N!IInv'
    BY <1>1, <1>2, <2>1, <2>2, RestKeeps
  <2>4. screen' # N!Away
    BY <1>2, <2>1, <2>2 DEF N!Away, N!WellFormed
  <2> QED BY <2>3, <2>4 DEF N!Recovered
<1>4. CASE N!Cardinality(page) # Limit
  <2>1. N!IInv'
    BY <1>1, <1>4, RestKeeps
  <2>2. N!Newer(screen.ref) \in SUBSET row
    BY DEF N!Newer
  <2>3. N!Newer(screen.ref) \subseteq page
    BY <1>2, <1>4, <2>2, ShortPageIsAll
  <2>4. screen.owed \cap row \subseteq N!Newer(screen.ref)
    BY <1>2 DEF N!Newer
  <2> QED BY <2>1, <2>3, <2>4 DEF N!Recovered
<1> QED BY <1>3, <1>4

\* No notice has begun, and no screen has come back.
LEMMA NoticesStart == ASSUME N!WellFormed PROVE N!Init => N!IInv
<1> SUFFICES ASSUME N!Init PROVE N!IInv
  OBVIOUS
<1>1. N!NoJob \in N!JobRow /\ N!NoJob.at = "fact" /\ N!NoJob = [N!NoJob EXCEPT !.at = "fact"]
      /\ N!NoJob.todo = {}
  BY DEF N!NoJob, N!JobRow
<1>2. /\ job = [f \in Facts |-> N!NoJob] /\ order = [f \in Facts |-> 0]
      /\ N!Stored = {} /\ N!Dated = {} /\ before = [f \in Facts |-> {}]
      /\ active = Devices /\ screen = N!Away
  BY DEF N!Init, N!Stored, N!Dated
<1>3. N!Cardinality(N!Dated) = 0
  BY <1>2, CountsAlike, FS_EmptySet
<1>4. \A f \in Facts : N!ToldOrTrying(job[f], Enabled[f])
  BY <1>1, <1>2 DEF N!ToldOrTrying
<1>5. N!InOrder
  BY <1>1, <1>2, <1>3 DEF N!InOrder
<1> QED
  BY <1>1, <1>2, <1>4, <1>5 DEF N!IInv, N!Owed, N!Away

\* Every step keeps the invariant, and only a page that is all there is ends a recovery.
LEMMA NoticesNext ==
  ASSUME N!WellFormed, N!IInv, [N!Next]_(N!vars)
  PROVE  N!IInv' /\ N!Recovered
<1>1. ASSUME UNCHANGED screen PROVE N!Recovered
  BY <1>1 DEF N!Recovered
<1>2. ASSUME NEW f \in Facts, N!Opens(f) PROVE N!IInv' /\ N!Recovered
  BY <1>1, <1>2, OpensKeeps DEF N!Opens
<1>3. ASSUME NEW f \in Facts, N!Stores(f) PROVE N!IInv' /\ N!Recovered
  BY <1>1, <1>3, StoresKeeps DEF N!Stores
<1>4. ASSUME NEW f \in Facts, NEW c \in NoticeChannels, N!Tells(f, c)
      PROVE  N!IInv' /\ N!Recovered
  BY <1>1, <1>4, TellsKeeps DEF N!Tells
<1>5. ASSUME NEW f \in Facts, N!PushBegins(f) PROVE N!IInv' /\ N!Recovered
  BY <1>1, <1>5, PushBeginsKeeps DEF N!PushBegins
<1>6. ASSUME NEW f \in Facts, NEW d \in Devices, N!PushesTo(f, d)
      PROVE  N!IInv' /\ N!Recovered
  BY <1>1, <1>6, PushesToKeeps DEF N!PushesTo
<1>7. ASSUME NEW f \in Facts, N!PushEnds(f) PROVE N!IInv' /\ N!Recovered
  BY <1>1, <1>7, PushEndsKeeps DEF N!PushEnds
<1>8. ASSUME NEW f \in Facts, N!Ends(f) \/ N!Dies(f) PROVE N!IInv' /\ N!Recovered
  BY <1>1, <1>8, JobEndsKeeps DEF N!Ends, N!Dies
<1>9. ASSUME NEW x \in Facts, N!Returns(x) PROVE N!IInv' /\ N!Recovered
  BY <1>9, RestKeeps DEF N!Returns, N!Recovered
<1>10. ASSUME NEW d \in Devices, N!Registers(d) \/ N!Unregisters(d)
       PROVE  N!IInv' /\ N!Recovered
  <2>1. active' \subseteq Devices
    BY <1>10 DEF N!Registers, N!Unregisters, N!IInv
  <2> QED BY <1>1, <1>10, <2>1, RestKeeps DEF N!Registers, N!Unregisters
<1>11. ASSUME NEW S \in SUBSET row, N!Purges(S) PROVE N!IInv' /\ N!Recovered
  BY <1>1, <1>11, RestKeeps DEF N!Purges
<1>12. CASE N!Reads
  BY <1>12, ReadsKeeps
<1>13. CASE UNCHANGED N!vars
  <2>1. active' \subseteq Devices
    BY <1>13 DEF N!vars, N!IInv
  <2> QED BY <1>1, <1>13, <2>1, RestKeeps DEF N!vars
<1> QED
  BY <1>2, <1>3, <1>4, <1>5, <1>6, <1>7, <1>8, <1>9, <1>10, <1>11, <1>12, <1>13 DEF N!Next

\* For any facts, channels, devices and size of a page: no channel that fails, and no browser,
\* keeps a notice from the others, and a screen that has come back and read the last page has
\* been given every notice it was owed, but for those purged meanwhile.
THEOREM NoticesArrive == ASSUME N!WellFormed PROVE N!Spec => NoticesReach
<1>1. N!Init => N!IInv
  BY NoticesStart
<1>2. N!IInv /\ [N!Next]_(N!vars) => N!IInv' /\ [N!Recovered]_(N!vars)
  BY NoticesNext
<1>3. N!IInv => N!EveryChannelTried
  BY DEF N!IInv, N!EveryChannelTried, N!Handed, N!ToldOrTrying
<1> QED
  BY <1>1, <1>2, <1>3, PTL DEF N!Spec, NoticesReach, N!NoticesReach
=============================================================================
