--------------------------- MODULE InventoryProofs ---------------------------
(***************************************************************************)
(* What holds of the stock, the kardex, the lines and the purchases for    *)
(* any items, lines, catalogues and overlapping requests.  Most of it      *)
(* needs no request to run alone; the two that do (a direct purchase,      *)
(* which loads a row before it locks it, and a reception, which reads its  *)
(* order unlocked) are named in the theorems that need them.               *)
(***************************************************************************)
EXTENDS Inventory, TLAPS, SequenceTheorems, FiniteSetTheorems, WellFoundedInduction

-----------------------------------------------------------------------------
(* Rows and lists of steps. *)

LEMMA NoneIsQty == None \in Qty /\ \A g \in Items : None[g] = 0
  BY DEF None, Qty

\* Other steps instead of the first one.
LEMMA ThenSteps ==
  ASSUME NEW r \in Requests, req[r].todo \in Seq(StepRow), req[r].todo # <<>>,
         NEW steps \in Seq(StepRow)
  PROVE  Then(r, steps) \in Seq(StepRow) /\ Tail(req[r].todo) \in Seq(StepRow)
           /\ Head1(r) \in StepRow
  BY HeadTailProperties, ConcatProperties DEF Then, Head1

\* They are new, or were behind the first one, in the same order.
LEMMA ThenAt ==
  ASSUME NEW r \in Requests, req[r].todo \in Seq(StepRow), req[r].todo # <<>>,
         NEW steps \in Seq(StepRow)
  PROVE  LET new == Then(r, steps)
             old == req[r].todo
             n   == Len(steps)
         IN  /\ 1 \in DOMAIN old /\ old[1] = Head1(r) /\ n \in Nat
             /\ \A i \in DOMAIN new : i \in Nat /\ i >= 1
             /\ \A i \in DOMAIN new : i <= n => i \in DOMAIN steps /\ new[i] = steps[i]
             /\ \A i \in DOMAIN new : i > n =>
                  i - n + 1 \in DOMAIN old /\ new[i] = old[i - n + 1]
             /\ \A j \in DOMAIN old : j \in Nat /\ j >= 1
             /\ \A j \in DOMAIN old :
                  j > 1 => j - 1 + n \in DOMAIN new /\ new[j - 1 + n] = old[j]
  <1> DEFINE old == req[r].todo
             t == Tail(old)
             new == Then(r, steps)
             n == Len(steps)
  <1>1. /\ t \in Seq(StepRow) /\ Head1(r) = old[1] /\ 1 \in DOMAIN old /\ DOMAIN old = 1 .. Len(old)
        /\ Len(t) = Len(old) - 1 /\ Len(old) \in Nat
        /\ \A i \in 1 .. Len(t) : t[i] = old[i + 1]
    BY HeadTailProperties DEF Head1
  <1>2. /\ new \in Seq(StepRow) /\ DOMAIN new = 1 .. Len(new)
        /\ Len(new) = n + Len(t)
        /\ \A i \in 1 .. Len(new) : new[i] = IF i <= n THEN steps[i] ELSE t[i - n]
    BY <1>1, ConcatProperties DEF Then
  <1>3. DOMAIN steps = 1 .. n /\ n \in Nat
    OBVIOUS
  <1> HIDE DEF new, old, t, n
  <1>4. ASSUME NEW i \in DOMAIN new, i > n PROVE i - n + 1 \in DOMAIN old /\ new[i] = old[i - n + 1]
    <2>1. i - n \in 1 .. Len(t) /\ new[i] = t[i - n]
      BY <1>1, <1>2, <1>3, <1>4
    <2> QED BY <1>1, <1>3, <1>4, <2>1
  <1>5. ASSUME NEW j \in DOMAIN old, j > 1 PROVE j - 1 + n \in DOMAIN new /\ new[j - 1 + n] = old[j]
    <2>1. j - 1 \in 1 .. Len(t) /\ t[j - 1] = old[j]
      BY <1>1, <1>5
    <2>2. j - 1 + n \in 1 .. Len(new) /\ ~(j - 1 + n <= n) /\ (j - 1 + n) - n = j - 1
      BY <1>1, <1>2, <1>3, <1>5, <2>1
    <2> QED BY <1>2, <2>1, <2>2
  <1>6. \A i \in DOMAIN new : i <= n => i \in DOMAIN steps /\ new[i] = steps[i]
    BY <1>2, <1>3
  <1>7. /\ \A i \in DOMAIN new : i \in Nat /\ i >= 1
        /\ \A j \in DOMAIN old : j \in Nat /\ j >= 1
    BY <1>1, <1>2
  <1> QED BY <1>1, <1>3, <1>4, <1>5, <1>6, <1>7 DEF new, old, n

\* What is left of a step, if anything.
LEMMA RestIs ==
  ASSUME NEW st \in StepRow, NEW m \in Qty
  PROVE  /\ Rest(st, m) \in Seq(StepRow)
         /\ DOMAIN Rest(st, m) \subseteq {1}
         /\ \A k \in DOMAIN Rest(st, m) :
              /\ k = 1 /\ Rest(st, m)[k].op = st.op /\ Rest(st, m)[k].lines = st.lines
              /\ Rest(st, m)[k].dir = st.dir /\ Rest(st, m)[k].rem = m
  <1>1. CASE Pending(m) = {}
    BY <1>1 DEF Rest
  <1>2. CASE Pending(m) # {}
    <2> DEFINE q == [st EXCEPT !.rem = m]
    <2>1. /\ q \in StepRow /\ q.op = st.op /\ q.lines = st.lines /\ q.dir = st.dir /\ q.rem = m
          /\ Rest(st, m) = <<q>>
      BY <1>2 DEF Rest, StepRow
    <2> HIDE DEF q
    <2> QED BY <2>1
  <1> QED BY <1>1, <1>2

LEMMA PendingLess ==
  ASSUME NEW m \in Qty, NEW g \in Items
  PROVE  Without(m, g) \in Qty /\ Pending(Without(m, g)) = Pending(m) \ {g}
  BY DEF Without, Pending, Qty

-----------------------------------------------------------------------------
(* What a step does to the requests.  From here on the module speaks of the shapes of       *)
(* steps instead of the actions: a request starts, goes on, gives up or commits.            *)

\* What a request has moved it has loaded, and an idle request holds nothing.
RowTyped(row) ==
  /\ row \in RequestRow
  /\ \A g \in Items : row.moved[g] # 0 => row.seen[g] # Unseen
  /\ row.kind = "idle" => row = Idle

Typed == TypeOK /\ \A r \in Requests : RowTyped(req[r])

LEMMA IdleTyped == RowTyped(Idle)
  <1>1. <<>> \in Seq(StepRow)
    OBVIOUS
  <1>2. Idle \in RequestRow
    BY <1>1, NoneIsQty DEF Idle, RequestRow, Kinds, Unseen, Qty, None
  <1> QED BY <1>2 DEF Idle, RowTyped, None

\* The request of a row: its kind, its lines and its order do not change on the way.
SameRequest(row, old) ==
  row.kind = old.kind /\ row.lines = old.lines /\ row.order = old.order
    /\ row.got = old.got /\ row.now = old.now

\* What a step of r does of an item: nothing; lock it and perhaps move it; only load it.
Untouched(r, row, g) ==
  /\ row.seen[g] = req[r].seen[g] /\ row.moved[g] = req[r].moved[g]
  /\ g \in row.held <=> g \in req[r].held

Taken(r, row, g) ==
  /\ Free(r, g) /\ g \in row.held /\ row.seen[g] >= 0
  /\ row.seen[g] = Read(r, g) + (row.moved[g] - req[r].moved[g])

LoadedFor(r, row, g) ==
  /\ req[r].seen[g] = Unseen /\ row.seen[g] = stock[g]
  /\ row.moved[g] = req[r].moved[g] /\ (g \in row.held <=> g \in req[r].held)

\* Doing the first step of r: other steps take its place.
Goes(r, row, steps) ==
  LET st == Head1(r) IN
  /\ Update(r, row) /\ RowTyped(row) /\ SameRequest(row, req[r])
  /\ req[r].todo # <<>> /\ row.todo = Then(r, steps)
  /\ st.op = "ensure" => steps = <<>> /\ st.lines \subseteq Sellable[config]
  /\ \A k \in DOMAIN steps :
       /\ steps[k].op \notin {"ensure", "lock"}
       /\ steps[k].op = "buy" => st.op = "buy"
       /\ steps[k].op = "plan" => st.op = "plan"
       /\ steps[k].op = "locking" =>
            /\ st.op \in {"lock", "locking"} /\ k = 1
            /\ st.op = "locking" => \E g \in Lowest(Pending(st.rem)) :
                 row.held = req[r].held \cup {g} /\ Pending(steps[k].rem) = Pending(st.rem) \ {g}
       /\ steps[k].lines \subseteq st.lines
       /\ steps[k].lines # {} => steps[k].dir = st.dir
  /\ st.op \in {"ensure", "lock"} => row.held = req[r].held
  /\ \A m \in row.drew \ req[r].drew :
       st.op = "plan" /\ m.line \in st.lines /\ m.dir = st.dir /\ m.need = Need[config][m.line]
  /\ \A g \in Items : \/ Untouched(r, row, g) \/ Taken(r, row, g)
                      \/ st.op = "buy" /\ LoadedFor(r, row, g)

GoesOn(r) == \E row \in RequestRow, steps \in Seq(StepRow) : Goes(r, row, steps)

\* The first step of a request that has any.
LEMMA FirstStep ==
  ASSUME Typed, NEW r \in Requests, req[r].todo # <<>>
  PROVE  /\ req[r].todo \in Seq(StepRow) /\ Head1(r) \in StepRow /\ Head1(r).rem \in Qty
         /\ Head1(r).lines \subseteq Lines /\ Head1(r).dir \in {-1, 1}
         /\ TypeOK /\ RowTyped(req[r]) /\ req[r] \in RequestRow /\ req[r].kind # "idle"
  <1>1. TypeOK /\ RowTyped(req[r]) /\ req[r].todo \in Seq(StepRow)
    BY DEF Typed, RowTyped, RequestRow
  <1>2. Head1(r) \in StepRow
    BY <1>1, ThenSteps
  <1> QED BY <1>1, <1>2 DEF StepRow, RowTyped, Idle

\* Only the steps of a row change.
LEMMA OnlySteps ==
  ASSUME NEW row, RowTyped(row), row.kind # "idle", NEW todo \in Seq(StepRow)
  PROVE  LET q == [row EXCEPT !.todo = todo]
         IN  /\ RowTyped(q) /\ SameRequest(q, row) /\ q.todo = todo
             /\ q.held = row.held /\ q.drew = row.drew
             /\ q.seen = row.seen /\ q.moved = row.moved
  BY DEF RowTyped, RequestRow, SameRequest

LEMMA EnsureGoes ==
  ASSUME Typed, NEW r \in Requests, Ensure(r) PROVE GoesOn(r) \/ Update(r, Idle)
  <1>1. CASE Head1(r).lines \subseteq Sellable[config]
    <2> DEFINE q == [req[r] EXCEPT !.todo = Tail(@)]
               none == <<>>
    <2>1. req[r].todo # <<>> /\ Head1(r).op = "ensure" /\ Update(r, q) /\ none \in Seq(StepRow)
      BY <1>1 DEF Ensure, At
    <2>2. Then(r, none) = Tail(req[r].todo) /\ Tail(req[r].todo) \in Seq(StepRow)
      BY <2>1, FirstStep, ThenSteps DEF Then
    <2>3. RowTyped(q) /\ SameRequest(q, req[r]) /\ q.todo = Then(r, none)
            /\ q.held = req[r].held /\ q.drew = req[r].drew
            /\ q.seen = req[r].seen /\ q.moved = req[r].moved
      BY <2>1, <2>2, FirstStep, OnlySteps
    <2> HIDE DEF q
    <2>4. Goes(r, q, none)
      BY <1>1, <2>1, <2>3 DEF Goes, Untouched
    <2> QED BY <2>1, <2>3, <2>4 DEF GoesOn, RowTyped
  <1>2. CASE ~(Head1(r).lines \subseteq Sellable[config])
    BY <1>2 DEF Ensure
  <1> QED BY <1>1, <1>2

LEMMA LockGoes ==
  ASSUME Typed, NEW r \in Requests, Lock(r) PROVE GoesOn(r)
  <1> DEFINE st == Step("locking", {}, 1, None)
             n == Rest(st, Needed(Head1(r).lines))
             q == [req[r] EXCEPT !.todo = Then(r, n)]
  <1>1. req[r].todo # <<>> /\ Head1(r).op = "lock" /\ Update(r, q)
    BY DEF Lock, At
  <1>2. Needed(Head1(r).lines) \in Qty
    BY DEF Needed, Qty
  <1>3. st \in StepRow /\ st.op = "locking" /\ st.lines = {}
    BY NoneIsQty DEF Step, StepRow
  <1>4. n \in Seq(StepRow) /\ \A k \in DOMAIN n : k = 1 /\ n[k].op = "locking" /\ n[k].lines = {}
    BY <1>2, <1>3, RestIs
  <1> HIDE DEF n
  <1>5. Then(r, n) \in Seq(StepRow)
    BY <1>1, <1>4, FirstStep, ThenSteps
  <1>6. RowTyped(q) /\ SameRequest(q, req[r]) /\ q.todo = Then(r, n)
          /\ q.held = req[r].held /\ q.drew = req[r].drew
          /\ q.seen = req[r].seen /\ q.moved = req[r].moved
    BY <1>1, <1>5, FirstStep, OnlySteps
  <1> HIDE DEF q
  <1>7. Goes(r, q, n)
    BY <1>1, <1>4, <1>6 DEF Goes, Untouched
  <1> QED BY <1>4, <1>6, <1>7 DEF GoesOn, RowTyped

LEMMA ReadIsQty ==
  ASSUME TypeOK, NEW r \in Requests, NEW g \in Items PROVE Read(r, g) \in Nat
  BY DEF Read, TypeOK, RequestRow, Qty, Unseen

LEMMA LockNextGoes ==
  ASSUME Typed, NEW r \in Requests, NEW g \in Items, LockNext(r, g) PROVE GoesOn(r)
  <1> DEFINE n == Rest(Head1(r), Without(Head1(r).rem, g))
             q == [req[r] EXCEPT !.held = @ \cup {g}, !.seen[g] = Read(r, g), !.todo = Then(r, n)]
  <1>1. /\ req[r].todo # <<>> /\ Head1(r).op = "locking" /\ g \in Lowest(Pending(Head1(r).rem))
        /\ Update(r, q)
    BY DEF LockNext, At, NextToLock
  <1>2. /\ TypeOK /\ RowTyped(req[r]) /\ req[r] \in RequestRow /\ Head1(r) \in StepRow
        /\ Head1(r).rem \in Qty /\ req[r].todo \in Seq(StepRow) /\ req[r].kind # "idle"
    BY <1>1, FirstStep
  <1>3. /\ n \in Seq(StepRow)
        /\ \A k \in DOMAIN n : /\ k = 1 /\ n[k].op = "locking" /\ n[k].lines = Head1(r).lines
                               /\ n[k].dir = Head1(r).dir
                               /\ Pending(n[k].rem) = Pending(Head1(r).rem) \ {g}
    <2> DEFINE m == Without(Head1(r).rem, g)
    <2>1. m \in Qty /\ Pending(m) = Pending(Head1(r).rem) \ {g}
      BY <1>2, PendingLess
    <2> HIDE DEF m
    <2>2. n = Rest(Head1(r), m)
      BY DEF m
    <2> HIDE DEF n
    <2>3. /\ Rest(Head1(r), m) \in Seq(StepRow)
          /\ \A k \in DOMAIN Rest(Head1(r), m) :
               /\ k = 1 /\ Rest(Head1(r), m)[k].op = Head1(r).op
               /\ Rest(Head1(r), m)[k].lines = Head1(r).lines
               /\ Rest(Head1(r), m)[k].dir = Head1(r).dir /\ Rest(Head1(r), m)[k].rem = m
      BY <1>2, <2>1, RestIs
    <2> QED BY <1>1, <2>1, <2>2, <2>3
  <1> HIDE DEF n
  <1>4. Then(r, n) \in Seq(StepRow)
    BY <1>1, <1>2, <1>3, ThenSteps
  <1>5. /\ SameRequest(q, req[r]) /\ q.todo = Then(r, n) /\ q.held = req[r].held \cup {g}
        /\ q.drew = req[r].drew /\ q.moved = req[r].moved
        /\ \A h \in Items : q.seen[h] = IF h = g THEN Read(r, g) ELSE req[r].seen[h]
    BY <1>2 DEF SameRequest, RequestRow
  <1>6. q \in RequestRow
    <2>1. [req[r].seen EXCEPT ![g] = Read(r, g)] \in [Items -> Nat \cup {Unseen}]
      BY <1>2, ReadIsQty DEF RequestRow
    <2> QED BY <1>2, <1>4, <2>1 DEF RequestRow
  <1> HIDE DEF q
  <1>7. Read(r, g) # Unseen
    BY <1>2, ReadIsQty DEF Unseen
  <1>8. RowTyped(q)
    BY <1>2, <1>5, <1>6, <1>7 DEF RowTyped, SameRequest
  <1>9. Goes(r, q, n)
    <2>1. \A h \in Items : Untouched(r, q, h) \/ Taken(r, q, h)
      <3>1. /\ Free(r, g) /\ g \in q.held /\ q.seen[g] = Read(r, g) /\ q.moved[g] = req[r].moved[g]
            /\ Read(r, g) \in Nat /\ q.moved[g] \in Int
        BY <1>2, <1>5, <1>6, ReadIsQty DEF LockNext, RequestRow
      <3>2. Taken(r, q, g)
        BY <3>1 DEF Taken
      <3>3. \A h \in Items \ {g} : Untouched(r, q, h)
        BY <1>5 DEF Untouched
      <3> QED BY <3>2, <3>3
    <2> QED BY <1>1, <1>3, <1>5, <1>8, <2>1 DEF Goes
  <1> QED BY <1>3, <1>6, <1>9 DEF GoesOn

\* The plan of a line: its movement, then what is left of the plan.
LEMMA PlanGoes ==
  ASSUME Typed, NEW r \in Requests, NEW l \in Lines, Plan(r, l) PROVE GoesOn(r)
  <1> DEFINE st == Head1(r)
             rest == IF st.lines = {l} THEN <<>> ELSE <<[st EXCEPT !.lines = @ \ {l}]>>
             mv == Step("move", {}, st.dir, None)
             move == Rest(mv, Need[config][l])
             n == move \o rest
             draw == [line |-> l, dir |-> st.dir, need |-> Need[config][l]]
             q == [req[r] EXCEPT !.drew = @ \cup {draw}, !.todo = Then(r, n)]
  <1>1. req[r].todo # <<>> /\ st.op = "plan" /\ l \in st.lines /\ Update(r, q)
    BY DEF Plan, At
  <1>2. /\ TypeOK /\ RowTyped(req[r]) /\ req[r] \in RequestRow /\ st \in StepRow
        /\ st.dir \in {-1, 1} /\ req[r].todo \in Seq(StepRow) /\ req[r].kind # "idle"
        /\ Need[config][l] \in Qty
    BY <1>1, FirstStep, InventoryAssumption DEF TypeOK, Qty
  <1>3. /\ move \in Seq(StepRow)
        /\ \A k \in DOMAIN move : move[k].op = "move" /\ move[k].lines = {}
    <2>1. mv \in StepRow /\ mv.op = "move" /\ mv.lines = {}
      BY <1>2, NoneIsQty DEF Step, StepRow
    <2> DEFINE m == Need[config][l]
    <2>2. m \in Qty
      BY <1>2
    <2> HIDE DEF mv, m
    <2>3. /\ Rest(mv, m) \in Seq(StepRow)
          /\ \A k \in DOMAIN Rest(mv, m) : /\ Rest(mv, m)[k].op = mv.op
                                          /\ Rest(mv, m)[k].lines = mv.lines
      BY <2>1, <2>2, RestIs
    <2>4. move = Rest(mv, m)
      BY DEF m
    <2> HIDE DEF move
    <2> QED BY <2>1, <2>3, <2>4
  <1>4. /\ rest \in Seq(StepRow)
        /\ \A k \in DOMAIN rest : rest[k].op = "plan" /\ rest[k].lines \subseteq st.lines
                                    /\ rest[k].dir = st.dir
    <2> DEFINE fewer == [st EXCEPT !.lines = @ \ {l}]
    <2>1. /\ fewer \in StepRow /\ fewer.op = "plan" /\ fewer.lines \subseteq st.lines
          /\ fewer.dir = st.dir
      BY <1>1, <1>2 DEF StepRow
    <2>2. rest = <<>> \/ rest = <<fewer>>
      OBVIOUS
    <2> HIDE DEF fewer
    <2>3. <<fewer>> \in Seq(StepRow) /\ \A k \in DOMAIN <<fewer>> : <<fewer>>[k] = fewer
      BY <2>1
    <2>4. <<>> \in Seq(StepRow) /\ DOMAIN <<>> = {}
      OBVIOUS
    <2> HIDE DEF rest
    <2>5. CASE rest = <<>>
      BY <2>4, <2>5
    <2>6. CASE rest = <<fewer>>
      BY <2>1, <2>3, <2>6
    <2> QED BY <2>2, <2>5, <2>6
  <1> HIDE DEF move, rest
  <1>5. /\ n \in Seq(StepRow)
        /\ \A k \in DOMAIN n : \/ n[k].op = "move" /\ n[k].lines = {}
                               \/ n[k].op = "plan" /\ n[k].lines \subseteq st.lines
                                    /\ n[k].dir = st.dir
    <2>1. /\ n \in Seq(StepRow) /\ Len(n) = Len(move) + Len(rest) /\ DOMAIN n = 1 .. Len(n)
          /\ \A k \in 1 .. Len(n) : n[k] = IF k <= Len(move) THEN move[k] ELSE rest[k - Len(move)]
      BY <1>3, <1>4, ConcatProperties
    <2>2. DOMAIN move = 1 .. Len(move) /\ DOMAIN rest = 1 .. Len(rest)
            /\ Len(move) \in Nat /\ Len(rest) \in Nat
      BY <1>3, <1>4
    <2> HIDE DEF n
    <2>3. ASSUME NEW k \in 1 .. Len(n)
          PROVE  \/ k \in DOMAIN move /\ n[k] = move[k]
                 \/ k - Len(move) \in DOMAIN rest /\ n[k] = rest[k - Len(move)]
      BY <2>1, <2>2
    <2> QED BY <2>1, <2>3, <1>3, <1>4
  <1> HIDE DEF n
  <1>6. Then(r, n) \in Seq(StepRow)
    BY <1>1, <1>2, <1>5, ThenSteps
  <1>7. draw \in DrawRow /\ draw.line = l /\ draw.dir = st.dir /\ draw.need = Need[config][l]
    BY <1>2 DEF DrawRow
  <1> HIDE DEF draw
  <1>8. /\ q \in RequestRow /\ SameRequest(q, req[r]) /\ q.todo = Then(r, n)
        /\ q.drew = req[r].drew \cup {draw}
        /\ q.moved = req[r].moved /\ q.seen = req[r].seen /\ q.held = req[r].held
    BY <1>2, <1>6, <1>7 DEF SameRequest, RequestRow
  <1> HIDE DEF q
  <1>9. RowTyped(q)
    BY <1>2, <1>8 DEF RowTyped, SameRequest
  <1>10. Goes(r, q, n)
    BY <1>1, <1>5, <1>7, <1>8, <1>9 DEF Goes, Untouched
  <1> QED BY <1>5, <1>8, <1>10 DEF GoesOn

\* A kardex row, or giving up because it would go below zero.
LEMMA RecordedGoes ==
  ASSUME Typed, NEW r \in Requests, NEW g \in Items, req[r].todo # <<>>,
         Head1(r).op \in {"move", "buy"}, Free(r, g), Update(r, Recorded(r, g))
  PROVE  GoesOn(r) \/ Update(r, Idle)
  <1> SUFFICES ASSUME Moved(r, g) >= 0 PROVE GoesOn(r)
    BY DEF Recorded
  <1> DEFINE n == Rest(Head1(r), Without(Head1(r).rem, g))
             d == Delta(r, g)
             q == [req[r] EXCEPT !.held = @ \cup {g}, !.seen[g] = Moved(r, g),
                                 !.moved[g] = @ + d, !.todo = Then(r, n)]
  <1>1. Update(r, q)
    BY DEF Recorded, Write
  <1>2. /\ TypeOK /\ RowTyped(req[r]) /\ req[r] \in RequestRow /\ Head1(r) \in StepRow
        /\ Head1(r).rem \in Qty /\ req[r].todo \in Seq(StepRow) /\ req[r].kind # "idle"
    BY FirstStep
  <1>3. /\ n \in Seq(StepRow)
        /\ \A k \in DOMAIN n : /\ k = 1 /\ n[k].op = Head1(r).op /\ n[k].lines = Head1(r).lines
                               /\ n[k].dir = Head1(r).dir
    <2> DEFINE m == Without(Head1(r).rem, g)
    <2>1. m \in Qty
      BY <1>2, PendingLess
    <2> HIDE DEF m
    <2>2. n = Rest(Head1(r), m)
      BY DEF m
    <2> HIDE DEF n
    <2>3. /\ Rest(Head1(r), m) \in Seq(StepRow)
          /\ \A k \in DOMAIN Rest(Head1(r), m) :
               /\ k = 1 /\ Rest(Head1(r), m)[k].op = Head1(r).op
               /\ Rest(Head1(r), m)[k].lines = Head1(r).lines
               /\ Rest(Head1(r), m)[k].dir = Head1(r).dir
      BY <1>2, <2>1, RestIs
    <2> QED BY <2>2, <2>3
  <1> HIDE DEF n
  <1>4. Then(r, n) \in Seq(StepRow)
    BY <1>2, <1>3, ThenSteps
  <1>5. d \in Int /\ Moved(r, g) \in Nat /\ Moved(r, g) = Read(r, g) + d /\ Read(r, g) \in Nat
    <2>1. Head1(r).rem[g] \in Nat /\ Read(r, g) \in Nat
      BY <1>2, ReadIsQty DEF Qty
    <2> QED BY <2>1 DEF Delta, Moved
  <1> HIDE DEF d
  <1>6. /\ SameRequest(q, req[r]) /\ q.todo = Then(r, n) /\ q.drew = req[r].drew
        /\ q.held = req[r].held \cup {g} /\ q.moved[g] = req[r].moved[g] + d
        /\ \A h \in Items : /\ q.seen[h] = IF h = g THEN Moved(r, g) ELSE req[r].seen[h]
                            /\ h # g => q.moved[h] = req[r].moved[h]
    BY <1>2 DEF SameRequest, RequestRow
  <1>7. q \in RequestRow
    <2>1. [req[r].seen EXCEPT ![g] = Moved(r, g)] \in [Items -> Nat \cup {Unseen}]
      BY <1>2, <1>5 DEF RequestRow
    <2>2. [req[r].moved EXCEPT ![g] = @ + d] \in [Items -> Int]
      BY <1>2, <1>5 DEF RequestRow
    <2> QED BY <1>2, <1>4, <2>1, <2>2 DEF RequestRow
  <1> HIDE DEF q
  <1>8. RowTyped(q)
    <2>1. Moved(r, g) # Unseen
      BY <1>5 DEF Unseen
    <2> QED BY <1>2, <1>6, <1>7, <2>1 DEF RowTyped, SameRequest
  <1>9. Goes(r, q, n)
    <2>1. Taken(r, q, g)
      <3>1. req[r].moved[g] \in Int /\ g \in q.held
        BY <1>2, <1>6 DEF RequestRow
      <3>2. q.moved[g] - req[r].moved[g] = d
        BY <1>5, <1>6, <3>1
      <3>3. q.seen[g] = Moved(r, g)
        BY <1>6
      <3> QED BY <1>5, <3>1, <3>2, <3>3 DEF Taken
    <2>2. \A h \in Items \ {g} : Untouched(r, q, h)
      BY <1>6 DEF Untouched
    <2> QED BY <1>1, <1>3, <1>6, <1>8, <2>1, <2>2 DEF Goes
  <1> QED BY <1>3, <1>7, <1>9 DEF GoesOn

\* Loading a row does no step: the first one takes its own place.
LEMMA LoadGoes ==
  ASSUME Typed, NEW r \in Requests, NEW g \in Items, LoadItem(r, g) PROVE GoesOn(r)
  <1> DEFINE n == <<Head1(r)>>
             q == [req[r] EXCEPT !.seen[g] = stock[g]]
  <1>1. req[r].todo # <<>> /\ Head1(r).op = "buy" /\ Update(r, q) /\ req[r].seen[g] = Unseen
    BY DEF LoadItem, At, Loaded
  <1>2. /\ TypeOK /\ RowTyped(req[r]) /\ req[r] \in RequestRow /\ Head1(r) \in StepRow
        /\ req[r].todo \in Seq(StepRow) /\ req[r].kind # "idle" /\ stock[g] \in Nat
    BY <1>1, FirstStep DEF TypeOK, Qty
  <1>3. n \in Seq(StepRow) /\ \A k \in DOMAIN n : k = 1 /\ n[k] = Head1(r)
    BY <1>2
  <1>4. Then(r, n) = req[r].todo
    BY <1>1, <1>2 DEF Then, Head1
  <1> HIDE DEF n
  <1>5. /\ SameRequest(q, req[r]) /\ q.todo = Then(r, n) /\ q.drew = req[r].drew
        /\ q.moved = req[r].moved /\ q.held = req[r].held
        /\ \A h \in Items : q.seen[h] = IF h = g THEN stock[g] ELSE req[r].seen[h]
    BY <1>2, <1>4 DEF SameRequest, RequestRow
  <1>6. q \in RequestRow
    <2>1. [req[r].seen EXCEPT ![g] = stock[g]] \in [Items -> Nat \cup {Unseen}]
      BY <1>2 DEF RequestRow
    <2> QED BY <1>2, <2>1 DEF RequestRow
  <1> HIDE DEF q
  <1>7. RowTyped(q)
    <2>1. stock[g] # Unseen
      BY <1>2 DEF Unseen
    <2> QED BY <1>2, <1>5, <1>6, <2>1 DEF RowTyped, SameRequest
  <1>8. Goes(r, q, n)
    <2>1. LoadedFor(r, q, g) /\ \A h \in Items \ {g} : Untouched(r, q, h)
      BY <1>1, <1>5 DEF LoadedFor, Untouched
    <2> QED BY <1>1, <1>3, <1>5, <1>7, <2>1 DEF Goes
  <1> QED BY <1>3, <1>6, <1>8 DEF GoesOn

\* A request that goes on does its first step, gives up, or commits.
LEMMA GoOnShape ==
  ASSUME Typed, NEW r \in Requests, GoOn(r) PROVE GoesOn(r) \/ Update(r, Idle) \/ Commit(r)
  <1>1. CASE Ensure(r) \/ Lock(r) \/ Commit(r)
    BY <1>1, EnsureGoes, LockGoes
  <1>2. CASE DeadlockVictim(r)
    BY <1>2 DEF DeadlockVictim
  <1>3. ASSUME NEW g \in Items, LockNext(r, g) \/ LoadItem(r, g) PROVE GoesOn(r)
    BY <1>3, LockNextGoes, LoadGoes
  <1>4. ASSUME NEW g \in Items, RecordMovement(r, g) \/ BuyItem(r, g)
        PROVE  GoesOn(r) \/ Update(r, Idle)
    <2>1. /\ Update(r, Recorded(r, g)) /\ req[r].todo # <<>> /\ Head1(r).op \in {"move", "buy"}
          /\ Free(r, g)
      BY <1>4 DEF RecordMovement, BuyItem, At, Loaded
    <2> QED BY <2>1, RecordedGoes
  <1>5. ASSUME NEW l \in Lines, Plan(r, l) PROVE GoesOn(r)
    BY <1>5, PlanGoes
  <1> QED BY <1>1, <1>2, <1>3, <1>4, <1>5 DEF GoOn

-----------------------------------------------------------------------------
(* What is known of a request from its first step to its commit.                            *)

\* A line that is to be sold is absent, one that is to be voided is sold.
StageFor(dir) == IF dir = -1 THEN "absent" ELSE "sold"

\* The steps of a request are about its own lines, as they stand.
Planned(row) ==
  \A i \in DOMAIN row.todo : \A l \in row.todo[i].lines :
    l \in row.lines /\ stage[l] = StageFor(row.todo[i].dir)

\* A line is sold only if the guard lets it, or has still to look at it first.
Guarded(row) ==
  \A i \in DOMAIN row.todo : \A l \in row.todo[i].lines \ edited :
    row.todo[i].op = "plan" /\ row.todo[i].dir = -1 =>
      \/ l \in Sellable[config]
      \/ \E j \in DOMAIN row.todo :
            j < i /\ row.todo[j].op = "ensure" /\ l \in row.todo[j].lines

\* What was drawn for a line is what the catalogue says, unless it was edited meanwhile.
Drawn(row) ==
  \A m \in row.drew :
    /\ m.line \in row.lines /\ stage[m.line] = StageFor(m.dir)
    /\ m.line \notin edited =>
         m.need = Need[config][m.line] /\ (m.dir = -1 => m.line \in Sellable[config])

\* A request of one deduction or reversal takes its locks at once, lowest item first.
Orderly(row) ==
  row.kind # "replace" =>
    \A i \in DOMAIN row.todo : row.todo[i].op \in {"lock", "locking"} =>
      /\ \A j \in DOMAIN row.todo : j < i => row.todo[j].op = "ensure"
      /\ row.todo[i].op = "lock" => row.held = {}
      /\ \A h \in row.held, g \in Pending(row.todo[i].rem) : h < g

\* A reception goes on from what the order had received, within what was ordered.
Fits(row) ==
  /\ row.kind # "receive" => row.order = {}
  /\ row.kind = "receive" => \E p \in Purchases :
       /\ row.order = {p} /\ purchase[p].status # "absent" /\ row.got = purchase[p].got
       /\ \A g \in Items : row.got[g] + row.now[g] <= purchase[p].qty[g]

-----------------------------------------------------------------------------
(* Starting. *)

\* What is sold is guarded first.
GuardFirst(steps) ==
  \A i \in DOMAIN steps : steps[i].op = "plan" /\ steps[i].dir = -1 =>
    \E j \in DOMAIN steps : j < i /\ steps[j].op = "ensure" /\ steps[j].lines = steps[i].lines

Starts(r, row) ==
  /\ req[r] = Idle /\ row.kind # "idle" /\ MayStart(row.kind)
  /\ req' = [req EXCEPT ![r] = row]
  /\ \A l \in row.lines : ~Claimed(l)
  /\ edited' = edited \ {l \in row.lines : stage[l] = "absent"}
  /\ count' \in [edits : Nat, manual : Nat] /\ UNCHANGED <<config, kardexVars>>
  /\ RowTyped(row) /\ row.drew = {} /\ row.held = {}
  /\ row.seen = Idle.seen /\ row.moved = None
  /\ row.kind # "buy" => \A i \in DOMAIN row.todo : row.todo[i].op # "buy"
  /\ Planned(row) /\ GuardFirst(row.todo) /\ Orderly(row) /\ Fits(row)

Start(r) == \E row \in RequestRow : Starts(r, row)

\* Lists of steps that a request may start with.
WellPlanned(kind, S, steps) ==
  /\ steps \in Seq(StepRow)
  /\ \A i \in DOMAIN steps : \A l \in steps[i].lines : l \in S /\ stage[l] = StageFor(steps[i].dir)
  /\ GuardFirst(steps)
  /\ kind # "buy" => \A i \in DOMAIN steps : steps[i].op # "buy"
  /\ kind # "replace" =>
       \A i \in DOMAIN steps :
         /\ steps[i].op # "locking"
         /\ steps[i].op = "lock" => \A j \in DOMAIN steps : j < i => steps[j].op = "ensure"

LEMMA BeginStarts ==
  ASSUME Typed, NEW r \in Requests, NEW kind \in Kinds \ {"receive"}, NEW S \in SUBSET Lines,
         NEW steps, WellPlanned(kind, S, steps), Begin(r, kind, S, steps),
         count' \in [edits : Nat, manual : Nat]
  PROVE  Start(r)
  <1> DEFINE q == [Idle EXCEPT !.kind = kind, !.lines = S, !.todo = steps]
  <1>1. /\ q.kind = kind /\ q.lines = S /\ q.todo = steps /\ q.held = {} /\ q.drew = {}
        /\ q.order = {} /\ q.moved = Idle.moved /\ q.seen = Idle.seen
    BY DEF Idle
  <1>2. q \in RequestRow /\ kind # "idle" /\ kind # "receive"
    BY IdleTyped DEF RowTyped, RequestRow, WellPlanned, Kinds
  <1>3. req' = [req EXCEPT ![r] = q]
    BY DEF Begin
  <1> HIDE DEF q
  <1>4. RowTyped(q)
    BY <1>1, <1>2, IdleTyped DEF RowTyped
  <1>5. Planned(q) /\ Fits(q)
    BY <1>1, <1>2 DEF Planned, Fits, WellPlanned
  <1>6. GuardFirst(q.todo)
    BY <1>1 DEF WellPlanned
  <1>7. Orderly(q)
    BY <1>1 DEF Orderly, WellPlanned
  <1>8. q.kind # "buy" => \A i \in DOMAIN q.todo : q.todo[i].op # "buy"
    BY <1>1 DEF WellPlanned
  <1>9. q.seen = Idle.seen /\ q.moved = None /\ q.held = {}
    BY <1>1 DEF Idle
  <1>10. Starts(r, q)
    BY <1>1, <1>2, <1>3, <1>4, <1>5, <1>6, <1>7, <1>8, <1>9 DEF Starts, Begin
  <1> QED BY <1>2, <1>10 DEF Start

LEMMA CountTyped ==
  TypeOK => /\ count \in [edits : Nat, manual : Nat]
            /\ [count EXCEPT !.manual = @ + 1] \in [edits : Nat, manual : Nat]
  BY DEF TypeOK

LEMMA DeductPlanned ==
  ASSUME NEW S \in SUBSET Lines, \A l \in S : stage[l] = "absent"
  PROVE  WellPlanned("sell", S, Deduct(S))
  <1> DEFINE a == Step("ensure", S, -1, None)
             b == Step("lock", S, -1, None)
             c == Step("plan", S, -1, None)
  <1>1. /\ a \in StepRow /\ a.op = "ensure" /\ a.lines = S /\ a.dir = -1
        /\ b \in StepRow /\ b.op = "lock" /\ b.lines = S /\ b.dir = -1
        /\ c \in StepRow /\ c.op = "plan" /\ c.lines = S /\ c.dir = -1
    BY NoneIsQty DEF Step, StepRow
  <1>2. Deduct(S) = <<a, b, c>>
    BY DEF Deduct
  <1> HIDE DEF a, b, c
  <1> DEFINE t == <<a, b, c>>
  <1>3. /\ t \in Seq(StepRow) /\ DOMAIN t = {1, 2, 3}
        /\ t[1] = a /\ t[2] = b /\ t[3] = c
    BY <1>1
  <1> HIDE DEF t
  <1>4. WellPlanned("sell", S, t)
    BY <1>1, <1>3 DEF WellPlanned, GuardFirst, StageFor
  <1> QED BY <1>2, <1>4 DEF t

LEMMA ReversePlanned ==
  ASSUME NEW S \in SUBSET Lines, \A l \in S : stage[l] = "sold"
  PROVE  WellPlanned("void", S, Reverse(S))
  <1> DEFINE a == Step("lock", S, 1, None)
             b == Step("plan", S, 1, None)
  <1>1. /\ a \in StepRow /\ a.op = "lock" /\ a.lines = S /\ a.dir = 1
        /\ b \in StepRow /\ b.op = "plan" /\ b.lines = S /\ b.dir = 1
    BY NoneIsQty DEF Step, StepRow
  <1>2. Reverse(S) = <<a, b>>
    BY DEF Reverse
  <1> HIDE DEF a, b
  <1> DEFINE t == <<a, b>>
  <1>3. /\ t \in Seq(StepRow) /\ DOMAIN t = {1, 2} /\ t[1] = a /\ t[2] = b
    BY <1>1
  <1> HIDE DEF t
  <1>4. WellPlanned("void", S, t)
    BY <1>1, <1>3 DEF WellPlanned, GuardFirst, StageFor
  <1> QED BY <1>2, <1>4 DEF t

LEMMA ReplacePlanned ==
  ASSUME NEW l \in Lines, NEW k \in Lines, stage[l] = "sold", stage[k] = "absent"
  PROVE  WellPlanned("replace", {l, k}, Reverse({l}) \o Deduct({k}))
  <1> DEFINE s == Reverse({l})
             t == Deduct({k})
             u == s \o t
  <1>1. WellPlanned("void", {l}, s) /\ WellPlanned("sell", {k}, t)
    BY DeductPlanned, ReversePlanned
  <1>2. \A i \in DOMAIN s : s[i].dir = 1
    BY DEF Reverse, Step
  <1> HIDE DEF s, t
  <1>3. s \in Seq(StepRow) /\ t \in Seq(StepRow)
    BY <1>1 DEF WellPlanned
  <1>4. /\ u \in Seq(StepRow) /\ Len(u) = Len(s) + Len(t) /\ DOMAIN u = 1 .. Len(u)
        /\ \A i \in 1 .. Len(u) : u[i] = IF i <= Len(s) THEN s[i] ELSE t[i - Len(s)]
    BY <1>3, ConcatProperties
  <1>5. DOMAIN s = 1 .. Len(s) /\ DOMAIN t = 1 .. Len(t) /\ Len(s) \in Nat /\ Len(t) \in Nat
    BY <1>3
  <1> HIDE DEF u
  <1>6. \A i \in DOMAIN u : \/ i \in DOMAIN s /\ u[i] = s[i]
                            \/ i - Len(s) \in DOMAIN t /\ u[i] = t[i - Len(s)]
    BY <1>4, <1>5
  <1>7. \A i \in DOMAIN t : i + Len(s) \in DOMAIN u /\ u[i + Len(s)] = t[i]
    BY <1>4, <1>5
  <1>8. ASSUME NEW i \in DOMAIN u, NEW h \in u[i].lines
        PROVE  h \in {l, k} /\ stage[h] = StageFor(u[i].dir)
    BY <1>1, <1>6, <1>8 DEF WellPlanned
  <1>9. ASSUME NEW i \in DOMAIN u, u[i].op = "plan", u[i].dir = -1
        PROVE  \E j \in DOMAIN u : j < i /\ u[j].op = "ensure" /\ u[j].lines = u[i].lines
    <2>1. i - Len(s) \in DOMAIN t /\ u[i] = t[i - Len(s)]
      BY <1>2, <1>6, <1>9
    <2>2. PICK j \in DOMAIN t : j < i - Len(s) /\ t[j].op = "ensure" /\ t[j].lines = u[i].lines
      BY <1>1, <1>9, <2>1 DEF WellPlanned, GuardFirst
    <2>3. j + Len(s) < i /\ j + Len(s) \in DOMAIN u /\ u[j + Len(s)] = t[j]
      BY <1>4, <1>5, <1>7, <2>1, <2>2
    <2> QED BY <2>2, <2>3
  <1>10. \A i \in DOMAIN u : u[i].op # "buy"
    BY <1>1, <1>6 DEF WellPlanned
  <1>11. WellPlanned("replace", {l, k}, u)
    BY <1>4, <1>8, <1>9, <1>10 DEF WellPlanned, GuardFirst
  <1> QED BY <1>11 DEF s, t, u

LEMMA SimplePlanned ==
  ASSUME NEW kind, NEW op \in {"move", "buy"}, NEW d \in {-1, 1}, NEW m \in Qty,
         op = "buy" => kind = "buy"
  PROVE  WellPlanned(kind, {}, <<Step(op, {}, d, m)>>)
  <1> DEFINE a == Step(op, {}, d, m)
  <1>1. a \in StepRow /\ a.op = op /\ a.lines = {}
    BY DEF Step, StepRow
  <1> HIDE DEF a
  <1> DEFINE t == <<a>>
  <1>2. t \in Seq(StepRow) /\ DOMAIN t = {1} /\ t[1] = a
    BY <1>1
  <1> HIDE DEF t
  <1>3. WellPlanned(kind, {}, t)
    BY <1>1, <1>2 DEF WellPlanned, GuardFirst
  <1> QED BY <1>3 DEF t, a

LEMMA ReceiveStarts ==
  ASSUME Typed, NEW r \in Requests, NEW p \in Purchases, NEW m \in Amounts, BeginReceive(r, p, m)
  PROVE  Start(r)
  <1> DEFINE steps == <<Step("move", {}, 1, m)>>
             q == [Idle EXCEPT !.kind = "receive", !.todo = steps,
                               !.order = {p}, !.got = purchase[p].got, !.now = m]
  <1>1. /\ TypeOK /\ m \in Qty /\ purchase[p].got \in Qty /\ purchase[p].qty \in Qty
    BY InventoryAssumption DEF Typed, TypeOK, PurchaseRow, Qty
  <1>2. WellPlanned("receive", {}, steps)
    BY <1>1, SimplePlanned
  <1> HIDE DEF steps
  <1>3. /\ q.kind = "receive" /\ q.lines = {} /\ q.todo = steps /\ q.held = {} /\ q.drew = {}
        /\ q.order = {p} /\ q.moved = Idle.moved /\ q.seen = Idle.seen
        /\ q.got = purchase[p].got /\ q.now = m
    BY DEF Idle
  <1>4. q \in RequestRow
    BY <1>1, <1>2, IdleTyped DEF RowTyped, RequestRow, WellPlanned, Kinds
  <1>5. req' = [req EXCEPT ![r] = q]
    BY DEF BeginReceive, steps
  <1> HIDE DEF q
  <1>6. RowTyped(q)
    BY <1>3, <1>4, IdleTyped DEF RowTyped
  <1>7. Planned(q) /\ GuardFirst(q.todo) /\ Orderly(q)
    BY <1>2, <1>3 DEF Planned, Orderly, WellPlanned
  <1>8. Fits(q)
    <2>1. purchase[p].status # "absent"
      BY DEF BeginReceive
    <2>2. \A g \in Items : q.got[g] + q.now[g] <= purchase[p].qty[g]
      <3> SUFFICES ASSUME NEW g \in Items PROVE purchase[p].got[g] + m[g] <= purchase[p].qty[g]
        BY <1>3
      <3>1. m[g] <= purchase[p].qty[g] - purchase[p].got[g]
        BY DEF BeginReceive, Left
      <3> QED BY <1>1, <3>1 DEF Qty
    <2> QED BY <1>3, <2>1, <2>2 DEF Fits
  <1>9. edited' = edited \ {l \in q.lines : stage[l] = "absent"}
    BY <1>3 DEF BeginReceive
  <1>10. /\ q.kind # "buy" => \A i \in DOMAIN q.todo : q.todo[i].op # "buy"
         /\ q.seen = Idle.seen /\ q.moved = None
    BY <1>2, <1>3 DEF WellPlanned, Idle
  <1>11. Starts(r, q)
    BY <1>1, <1>3, <1>5, <1>6, <1>7, <1>8, <1>9, <1>10, CountTyped DEF Starts, BeginReceive
  <1> QED BY <1>4, <1>11 DEF Start

\* A step of the system, by shape.
LEMMA Shapes ==
  ASSUME Typed, [Next]_vars
  PROVE  \/ \E r \in Requests : Start(r) \/ GoesOn(r) \/ Update(r, Idle) \/ Commit(r)
         \/ \E p \in Purchases, q \in Amounts : CreatePurchaseOrder(p, q)
         \/ \E c \in Configs : EditCatalogue(c)
         \/ UNCHANGED vars
  <1>0. TypeOK
    BY DEF Typed
  <1>1. ASSUME NEW r \in Requests, NEW S \in Batches, BeginSell(r, S) PROVE Start(r)
    <2>1. S \in SUBSET Lines /\ count' \in [edits : Nat, manual : Nat]
      BY <1>0, <1>1, InventoryAssumption, CountTyped DEF BeginSell
    <2> QED BY <1>1, <2>1, DeductPlanned, BeginStarts DEF BeginSell, Kinds
  <1>2. ASSUME NEW r \in Requests, NEW S \in Batches, BeginVoid(r, S) PROVE Start(r)
    <2>1. S \in SUBSET Lines /\ count' \in [edits : Nat, manual : Nat]
      BY <1>0, <1>2, InventoryAssumption, CountTyped DEF BeginVoid
    <2> QED BY <1>2, <2>1, ReversePlanned, BeginStarts DEF BeginVoid, Kinds
  <1>3. ASSUME NEW r \in Requests, NEW l \in Lines, NEW m \in Lines, BeginReplace(r, l, m)
        PROVE  Start(r)
    <2>1. {l, m} \in SUBSET Lines /\ count' \in [edits : Nat, manual : Nat]
      BY <1>0, <1>3, CountTyped DEF BeginReplace
    <2> QED BY <1>3, <2>1, ReplacePlanned, BeginStarts DEF BeginReplace, Kinds
  <1>4. ASSUME NEW r \in Requests, NEW q \in Amounts, BeginBuy(r, q) PROVE Start(r)
    <2>1. q \in Qty /\ count' \in [edits : Nat, manual : Nat]
      BY <1>0, <1>4, InventoryAssumption, CountTyped DEF BeginBuy, Qty
    <2> QED BY <1>4, <2>1, SimplePlanned, BeginStarts DEF BeginBuy, Kinds
  <1>5. ASSUME NEW r \in Requests, NEW g \in Items, NEW d \in {-1, 1}, BeginAdjust(r, g, d)
        PROVE  Start(r)
    <2>1. [None EXCEPT ![g] = 1] \in Qty /\ count' \in [edits : Nat, manual : Nat]
      BY <1>0, <1>5, NoneIsQty, CountTyped DEF BeginAdjust, Qty
    <2> QED BY <1>5, <2>1, SimplePlanned, BeginStarts DEF BeginAdjust, Kinds
  <1>6. ASSUME NEW r \in Requests, NEW p \in Purchases, NEW q \in Amounts, BeginReceive(r, p, q)
        PROVE  Start(r)
    BY <1>6, ReceiveStarts
  <1>7. ASSUME NEW r \in Requests, GoOn(r) PROVE GoesOn(r) \/ Update(r, Idle) \/ Commit(r)
    BY <1>7, GoOnShape
  <1>8. ASSUME NEW r \in Requests, Rollback(r) PROVE Update(r, Idle)
    BY <1>8 DEF Rollback
  <1> QED BY <1>1, <1>2, <1>3, <1>4, <1>5, <1>6, <1>7, <1>8 DEF Next

-----------------------------------------------------------------------------
(* Types, whatever overlaps.                                                               *)

LEMMA RowOnly ==
  ASSUME Typed, NEW r \in Requests, NEW row, RowTyped(row), req' = [req EXCEPT ![r] = row],
         UNCHANGED <<config, kardexVars>>, edited' \subseteq Lines,
         count' \in [edits : Nat, manual : Nat]
  PROVE  Typed' /\ \A s \in Requests : req'[s] = IF s = r THEN row ELSE req[s]
  <1>1. \A s \in Requests : req'[s] = IF s = r THEN row ELSE req[s]
    BY DEF Typed, TypeOK
  <1>2. TypeOK'
    BY <1>1 DEF Typed, TypeOK, RowTyped, kardexVars
  <1>3. \A s \in Requests : RowTyped(req[s])'
    BY <1>1 DEF Typed, RowTyped
  <1> QED BY <1>1, <1>2, <1>3 DEF Typed

LEMMA UpdateTyped ==
  ASSUME Typed, NEW r \in Requests, NEW row, RowTyped(row), Update(r, row)
  PROVE  Typed' /\ \A s \in Requests : req'[s] = IF s = r THEN row ELSE req[s]
  BY RowOnly DEF Update, Typed, TypeOK

LEMMA StartTyped ==
  ASSUME Typed, NEW r \in Requests, NEW row, Starts(r, row)
  PROVE  Typed' /\ \A s \in Requests : req'[s] = IF s = r THEN row ELSE req[s]
  <1>1. edited' \subseteq Lines
    BY DEF Starts, Typed, TypeOK
  <1> QED BY <1>1, RowOnly DEF Starts

LEMMA CommitTypes ==
  ASSUME TypeOK, NEW r \in Requests, Commit(r), Stored(r) \in Qty PROVE TypeOK'
  <1>1. TypeOK /\ req[r] \in RequestRow /\ Idle \in RequestRow
    BY IdleTyped DEF TypeOK, RowTyped
  <1>2. stock' \in Qty
    BY DEF Commit
  <1>3. net' \in [Items -> Int]
    BY <1>1 DEF Commit, TypeOK, RequestRow
  <1>4. stage' \in [Lines -> {"absent", "sold", "voided"}]
    BY <1>1 DEF Commit, TypeOK
  <1>5. \A l \in Lines, d \in {-1, 1}, old \in Qty : Written(r, l, d, old) \in Qty
    <2> SUFFICES ASSUME NEW l \in Lines, NEW d \in {-1, 1}, NEW old \in Qty,
                        Drew(r, l, d) # {}
                 PROVE  (CHOOSE m \in Drew(r, l, d) : TRUE).need \in Qty
      BY DEF Written
    <2>1. Drew(r, l, d) \subseteq DrawRow
      BY <1>1 DEF Drew, RequestRow
    <2> QED BY <2>1 DEF DrawRow
  <1>6. took' \in [Lines -> Qty] /\ gave' \in [Lines -> Qty]
    BY <1>1, <1>5 DEF Commit, TypeOK
  <1>7. purchase' \in [Purchases -> PurchaseRow]
    <2>1. \A p \in Purchases : Received(r, p) \in PurchaseRow
      <3> SUFFICES ASSUME NEW p \in Purchases PROVE Received(r, p) \in PurchaseRow
        OBVIOUS
      <3> DEFINE got == [g \in Items |-> req[r].got[g] + req[r].now[g]]
      <3>1. got \in Qty /\ purchase[p] \in PurchaseRow
        BY <1>1 DEF TypeOK, RequestRow, Qty
      <3> HIDE DEF got
      <3>2. Received(r, p) =
              [purchase[p] EXCEPT !.got = got,
                 !.status = IF \A g \in Items : got[g] >= purchase[p].qty[g] THEN "received"
                                                                             ELSE "partial"]
        BY DEF Received, got
      <3> QED BY <3>1, <3>2 DEF PurchaseRow, PurchaseStatuses
    <2> QED BY <1>1, <2>1 DEF Commit, TypeOK
  <1>8. entered' \in [Purchases -> Qty]
    BY <1>1 DEF Commit, TypeOK, RequestRow, Qty
  <1>9. req' \in [Requests -> RequestRow]
    BY <1>1 DEF Commit, TypeOK
  <1> QED BY <1>1, <1>2, <1>3, <1>4, <1>6, <1>7, <1>8, <1>9 DEF Commit, TypeOK

LEMMA CommitTyped ==
  ASSUME Typed, NEW r \in Requests, Commit(r)
  PROVE  Typed' /\ \A s \in Requests : req'[s] = IF s = r THEN Idle ELSE req[s]
  <1>1. \A s \in Requests : req'[s] = IF s = r THEN Idle ELSE req[s]
    BY DEF Typed, TypeOK, Commit
  <1>2. TypeOK'
    <2>1. Stored(r) \in Qty
      BY DEF Typed, TypeOK, RowTyped, RequestRow, Stored, Qty, Unseen
    <2> QED BY <2>1, CommitTypes DEF Typed
  <1>3. \A s \in Requests : RowTyped(req[s])'
    BY <1>1, IdleTyped DEF Typed, RowTyped, Idle
  <1> QED BY <1>1, <1>2, <1>3 DEF Typed

LEMMA StepTyped == ASSUME Typed, [Next]_vars PROVE Typed'
  <1>1. ASSUME NEW r \in Requests, Start(r) PROVE Typed'
    BY <1>1, StartTyped DEF Start
  <1>2. ASSUME NEW r \in Requests, GoesOn(r) PROVE Typed'
    BY <1>2, UpdateTyped DEF GoesOn, Goes
  <1>3. ASSUME NEW r \in Requests, Update(r, Idle) \/ Commit(r) PROVE Typed'
    BY <1>3, UpdateTyped, CommitTyped, IdleTyped
  <1>4. ASSUME NEW p \in Purchases, NEW q \in Amounts, CreatePurchaseOrder(p, q) PROVE Typed'
    <2>1. [status |-> "draft", qty |-> q, got |-> None] \in PurchaseRow
      BY NoneIsQty, InventoryAssumption DEF PurchaseRow, PurchaseStatuses, Qty
    <2> QED BY <1>4, <2>1 DEF Typed, TypeOK, RowTyped, CreatePurchaseOrder
  <1>5. ASSUME NEW c \in Configs, EditCatalogue(c) PROVE Typed'
    BY <1>5 DEF Typed, TypeOK, RowTyped, EditCatalogue, kardexVars
  <1>6. CASE UNCHANGED vars
    BY <1>6 DEF Typed, TypeOK, RowTyped, vars
  <1> QED BY <1>1, <1>2, <1>3, <1>4, <1>5, <1>6, Shapes

LEMMA InitTyped == Init => Typed
  <1> SUFFICES ASSUME Init PROVE Typed
    OBVIOUS
  <1>1. TypeOK
    BY IdleTyped, NoneIsQty, InventoryAssumption
    DEF Init, TypeOK, RowTyped, PurchaseRow, PurchaseStatuses, Qty, None
  <1> QED BY <1>1, IdleTyped DEF Init, Typed

\* No sale takes stock below zero, and every row keeps its type, whatever overlaps: purchases
\* that lose an update included.
THEOREM TypeCorrect == Spec => []TypeOK
  <1>1. Typed => TypeOK
    BY DEF Typed
  <1> QED BY <1>1, InitTyped, StepTyped, PTL DEF Spec

-----------------------------------------------------------------------------
(* The kardex explains the stock, if direct purchases run alone.                            *)

\* What WritesFresh and OnlyBuysBuy ask of one request.
Fresh(row, g) ==
  IF g \in row.held
  THEN row.seen[g] = stock[g] + row.moved[g] /\ row.seen[g] >= 0
  ELSE /\ row.moved[g] = 0
       /\ row.seen[g] \in {Unseen, stock[g]}
       /\ row.kind # "buy" => row.seen[g] = Unseen

NoBuying(row) == row.kind # "buy" => \A i \in DOMAIN row.todo : row.todo[i].op # "buy"

KardexInv ==
  /\ Typed /\ LocksExclude /\ BuysAlone /\ KardexExplainsStock
  /\ \A r \in Requests : NoBuying(req[r]) /\ \A g \in Items : Fresh(req[r], g)

\* With the types, this is IInv.
LEMMA KardexInvIs == KardexInv => IInv
  BY DEF KardexInv, Typed, RowTyped, IInv, WritesFresh, Fresh, OnlyBuysBuy, NoBuying, Idle

LEMMA IdleFresh ==
  /\ NoBuying(Idle) /\ Idle.held = {} /\ Idle.kind = "idle"
  /\ \A g \in Items : Idle.moved[g] = 0 /\ Idle.seen[g] = Unseen
  BY DEF NoBuying, Idle, None

\* A request changes its own row and nothing is written.
LEMMA RowFresh ==
  ASSUME KardexInv, "buy" \in Alone, NEW r \in Requests, NEW row, Typed',
         \A s \in Requests : req'[s] = IF s = r THEN row ELSE req[s],
         UNCHANGED <<stock, net>>,
         NoBuying(row), \A g \in Items : Fresh(row, g),
         \A g \in row.held \ req[r].held : Free(r, g),
         \/ row.kind \in {req[r].kind, "idle"}
         \/ MayStart(row.kind) /\ req[r].kind = "idle"
  PROVE  KardexInv'
  <1>1. LocksExclude'
    BY DEF KardexInv, LocksExclude, Free
  <1>2. BuysAlone'
    BY DEF KardexInv, BuysAlone, MayStart
  <1>3. KardexExplainsStock'
    BY DEF KardexInv, KardexExplainsStock
  <1>4. \A s \in Requests : NoBuying(req[s])' /\ \A g \in Items : Fresh(req[s], g)'
    BY DEF KardexInv, NoBuying, Fresh
  <1> QED BY <1>1, <1>2, <1>3, <1>4 DEF KardexInv

\* The row that a step leaves: an item that is taken was as committed, plus what was moved.
LEMMA GoesFresh ==
  ASSUME KardexInv, NEW r \in Requests, NEW row \in RequestRow, NEW steps \in Seq(StepRow),
         Goes(r, row, steps)
  PROVE  /\ NoBuying(row) /\ \A g \in Items : Fresh(row, g)
         /\ \A g \in row.held \ req[r].held : Free(r, g)
  <1>1. /\ req[r].todo \in Seq(StepRow) /\ req[r].todo # <<>> /\ row.todo = Then(r, steps)
        /\ row.kind = req[r].kind /\ NoBuying(req[r]) /\ req[r] \in RequestRow /\ TypeOK
    BY DEF KardexInv, Goes, Typed, RowTyped, RequestRow, SameRequest
  <1>2. /\ \A k \in DOMAIN steps : steps[k].op = "buy" => Head1(r).op = "buy"
        /\ \A g \in Items : \/ Untouched(r, row, g) \/ Taken(r, row, g)
                            \/ Head1(r).op = "buy" /\ LoadedFor(r, row, g)
    BY DEF Goes
  <1>3. NoBuying(row)
    <2> SUFFICES ASSUME row.kind # "buy", NEW i \in DOMAIN row.todo PROVE row.todo[i].op # "buy"
      BY DEF NoBuying
    <2> DEFINE n == Len(steps)
    <2>1. /\ 1 \in DOMAIN req[r].todo /\ req[r].todo[1] = Head1(r) /\ n \in Nat /\ i \in Nat
          /\ i <= n => i \in DOMAIN steps /\ row.todo[i] = steps[i]
          /\ i > n => i - n + 1 \in DOMAIN req[r].todo /\ row.todo[i] = req[r].todo[i - n + 1]
      BY <1>1, ThenAt
    <2> HIDE DEF n
    <2>2. Head1(r).op # "buy"
      BY <1>1, <2>1 DEF NoBuying
    <2>3. CASE i <= n
      BY <1>2, <2>1, <2>2, <2>3
    <2>4. CASE i > n
      BY <1>1, <2>1, <2>4 DEF NoBuying
    <2> QED BY <2>1, <2>3, <2>4
  <1>4. Head1(r).op = "buy" => row.kind = "buy"
    <2>1. 1 \in DOMAIN req[r].todo /\ req[r].todo[1] = Head1(r)
      BY <1>1, ThenAt
    <2> QED BY <1>1, <2>1 DEF NoBuying
  <1>5. ASSUME NEW g \in Items PROVE Fresh(row, g)
    <2>1. /\ Fresh(req[r], g) /\ stock[g] \in Nat /\ req[r].moved[g] \in Int /\ row.moved[g] \in Int
          /\ req[r].seen[g] \in Nat \cup {Unseen}
      BY <1>1 DEF KardexInv, TypeOK, Qty, RequestRow
    <2>2. CASE Untouched(r, row, g)
      BY <1>1, <2>1, <2>2 DEF Untouched, Fresh
    <2>3. CASE Taken(r, row, g)
      <3>1. Read(r, g) = stock[g] + req[r].moved[g]
        BY <2>1 DEF Read, Fresh, Unseen
      <3>2. row.seen[g] = stock[g] + row.moved[g]
        BY <2>1, <2>3, <3>1 DEF Taken
      <3> QED BY <2>3, <3>2 DEF Taken, Fresh
    <2>4. CASE Head1(r).op = "buy" /\ LoadedFor(r, row, g)
      <3>1. g \notin req[r].held
        BY <2>1, <2>4 DEF LoadedFor, Fresh, Unseen
      <3> QED BY <1>4, <2>1, <2>4, <3>1 DEF LoadedFor, Fresh
    <2> QED BY <1>2, <2>2, <2>3, <2>4
  <1>6. ASSUME NEW g \in row.held, g \notin req[r].held PROVE Free(r, g)
    <2>1. g \in Items
      BY DEF RequestRow
    <2> QED BY <1>2, <1>6, <2>1 DEF Untouched, Taken, LoadedFor
  <1> QED BY <1>3, <1>5, <1>6

LEMMA CommitFresh ==
  ASSUME KardexInv, NEW r \in Requests, Commit(r) PROVE KardexInv'
  <1>1. Typed' /\ \A s \in Requests : req'[s] = IF s = r THEN Idle ELSE req[s]
    BY CommitTyped DEF KardexInv
  <1>2. ASSUME NEW g \in Items
        PROVE  /\ stock'[g] = stock[g] + req[r].moved[g] /\ net'[g] = net[g] + req[r].moved[g]
               /\ stock[g] \in Nat /\ net[g] \in Int /\ req[r].moved[g] \in Int
    <2>1. /\ stock[g] \in Nat /\ net[g] \in Int /\ req[r].moved[g] \in Int /\ Fresh(req[r], g)
      BY DEF KardexInv, Typed, TypeOK, Qty, RowTyped, RequestRow
    <2>2. Stored(r)[g] = stock[g] + req[r].moved[g]
      BY <2>1 DEF Stored, Fresh
    <2> QED BY <2>1, <2>2 DEF Commit
  <1>3. LocksExclude' /\ BuysAlone'
    BY <1>1, IdleFresh DEF KardexInv, LocksExclude, BuysAlone
  <1>4. KardexExplainsStock'
    <2> SUFFICES ASSUME NEW g \in Items PROVE stock'[g] = Stock0[g] + net'[g]
      BY DEF KardexExplainsStock
    <2>1. stock[g] = Stock0[g] + net[g] /\ Stock0[g] \in Nat
      BY InventoryAssumption DEF KardexInv, KardexExplainsStock
    <2> QED BY <1>2, <2>1
  <1>5. ASSUME NEW s \in Requests PROVE NoBuying(req[s])' /\ \A g \in Items : Fresh(req[s], g)'
    <2>1. CASE s = r
      BY <1>1, <2>1, IdleFresh DEF NoBuying, Fresh
    <2>2. CASE s # r
      <3>1. req'[s] = req[s] /\ NoBuying(req[s]) /\ req[s].kind # "buy"
        BY <1>1, <2>2 DEF KardexInv, BuysAlone, Commit
      <3>2. ASSUME NEW g \in Items PROVE Fresh(req[s], g)'
        <4>1. CASE g \in req[s].held
          <5>1. g \notin req[r].held /\ Fresh(req[r], g)
            BY <2>2, <4>1 DEF KardexInv, LocksExclude
          <5>2. stock'[g] = stock[g]
            BY <1>2, <5>1 DEF Fresh
          <5> QED BY <3>1, <4>1, <5>2 DEF KardexInv, Fresh
        <4>2. CASE g \notin req[s].held
          BY <3>1, <4>2 DEF KardexInv, Fresh
        <4> QED BY <4>1, <4>2
      <3> QED BY <3>1, <3>2 DEF NoBuying
    <2> QED BY <2>1, <2>2
  <1> QED BY <1>1, <1>3, <1>4, <1>5 DEF KardexInv

LEMMA StepFresh == ASSUME "buy" \in Alone, KardexInv, [Next]_vars PROVE KardexInv'
  <1>0. Typed /\ Typed'
    BY StepTyped DEF KardexInv
  <1>1. ASSUME NEW r \in Requests, Start(r) PROVE KardexInv'
    <2>1. PICK row \in RequestRow : Starts(r, row)
      BY <1>1 DEF Start
    <2>2. \A s \in Requests : req'[s] = IF s = r THEN row ELSE req[s]
      BY <1>0, <2>1, StartTyped
    <2>3. /\ UNCHANGED <<stock, net>> /\ row.held = {} /\ MayStart(row.kind) /\ req[r].kind = "idle"
          /\ NoBuying(row)
      BY <2>1 DEF Starts, NoBuying, kardexVars, Idle
    <2>4. \A g \in Items : Fresh(row, g)
      BY <2>1, <2>3, NoneIsQty DEF Starts, Fresh, Idle
    <2> QED BY <1>0, <2>2, <2>3, <2>4, RowFresh
  <1>2. ASSUME NEW r \in Requests, GoesOn(r) PROVE KardexInv'
    <2>1. PICK row \in RequestRow, steps \in Seq(StepRow) : Goes(r, row, steps)
      BY <1>2 DEF GoesOn
    <2>2. /\ \A s \in Requests : req'[s] = IF s = r THEN row ELSE req[s]
          /\ UNCHANGED <<stock, net>> /\ row.kind = req[r].kind
      BY <1>0, <2>1, UpdateTyped DEF Goes, Update, kardexVars, SameRequest
    <2>3. /\ NoBuying(row) /\ \A g \in Items : Fresh(row, g)
          /\ \A g \in row.held \ req[r].held : Free(r, g)
      BY <2>1, GoesFresh
    <2> QED BY <1>0, <2>2, <2>3, RowFresh
  <1>3. ASSUME NEW r \in Requests, Update(r, Idle) PROVE KardexInv'
    <2>1. /\ \A s \in Requests : req'[s] = IF s = r THEN Idle ELSE req[s]
          /\ UNCHANGED <<stock, net>>
      BY <1>0, <1>3, UpdateTyped, IdleTyped DEF Update, kardexVars
    <2>2. \A g \in Items : Fresh(Idle, g)
      BY IdleFresh DEF Fresh
    <2> QED BY <1>0, <2>1, <2>2, IdleFresh, RowFresh
  <1>4. ASSUME NEW r \in Requests, Commit(r) PROVE KardexInv'
    BY <1>4, CommitFresh
  <1>5. ASSUME UNCHANGED <<req, stock, net>> PROVE KardexInv'
    BY <1>0, <1>5 DEF KardexInv, LocksExclude, BuysAlone, KardexExplainsStock, NoBuying, Fresh
  <1>6. ASSUME NEW p \in Purchases, NEW q \in Amounts, CreatePurchaseOrder(p, q) PROVE KardexInv'
    BY <1>5, <1>6 DEF CreatePurchaseOrder
  <1>7. ASSUME NEW c \in Configs, EditCatalogue(c) PROVE KardexInv'
    BY <1>5, <1>7 DEF EditCatalogue, kardexVars
  <1>8. CASE UNCHANGED vars
    BY <1>5, <1>8 DEF vars
  <1> QED BY <1>0, <1>1, <1>2, <1>3, <1>4, <1>6, <1>7, <1>8, Shapes

LEMMA InitFresh == Init => KardexInv
  <1> SUFFICES ASSUME Init PROVE KardexInv
    OBVIOUS
  <1>1. \A r \in Requests : req[r] = Idle
    BY DEF Init
  <1>2. KardexExplainsStock
    BY InventoryAssumption DEF Init, KardexExplainsStock, None
  <1> QED BY <1>1, <1>2, InitTyped, IdleFresh DEF KardexInv, LocksExclude, BuysAlone, Fresh

\* In every reachable state a request writes nothing but the committed stock plus its own
\* kardex rows, rows are locked by one request, and purchases run alone.
THEOREM Invariance == ASSUME "buy" \in Alone PROVE Spec => []IInv
  BY InitFresh, StepFresh, KardexInvIs, PTL DEF Spec

\* Whatever sales, voids, adjustments and receptions overlap, of any lines and under any
\* edits of the catalogue, the stock is what the kardex says.
THEOREM StockIsExplained == ASSUME "buy" \in Alone PROVE Spec => []KardexExplainsStock
  <1>1. IInv => KardexExplainsStock
    BY DEF IInv
  <1> QED BY <1>1, Invariance, PTL

-----------------------------------------------------------------------------
(* What sales took and voids gave back.                                                     *)

\* A line is taken by one request at a time.
ClaimsApart == \A r, s \in Requests : r # s => req[r].lines \cap req[s].lines = {}

\* A sold line took what the catalogue still says; a voided one was given that back.
Settled ==
  \A l \in Lines \ edited :
    /\ stage[l] = "sold" => l \in Sellable[config] /\ took[l] = Need[config][l]
    /\ stage[l] = "voided" =>
         gave[l] = took[l] /\ \E c \in Configs : l \in Sellable[c] /\ took[l] = Need[c][l]

InHand(row) == Planned(row) /\ Guarded(row) /\ Drawn(row)

LinesInv == Typed /\ ClaimsApart /\ Settled /\ \A r \in Requests : InHand(req[r])

LEMMA IdleInHand == InHand(Idle)
  BY DEF InHand, Planned, Guarded, Drawn, Idle

\* The catalogue, the lines in their stages and the edits stay as they are for the lines of
\* a row: so does what is known of it.
LEMMA InHandStays ==
  ASSUME NEW row \in RequestRow, InHand(row), row.todo \in Seq(StepRow),
         \A l \in row.lines : stage'[l] = stage[l] /\ (l \notin edited' => l \notin edited),
         config' = config \/ row.lines \subseteq edited'
  PROVE  InHand(row)'
  <1>1. Planned(row)'
    BY DEF InHand, Planned, StageFor
  <1>2. Guarded(row)'
    <2> SUFFICES ASSUME NEW i \in DOMAIN row.todo, NEW l \in row.todo[i].lines, l \notin edited',
                        row.todo[i].op = "plan", row.todo[i].dir = -1
                 PROVE  \/ l \in Sellable[config']
                        \/ \E j \in DOMAIN row.todo :
                              j < i /\ row.todo[j].op = "ensure" /\ l \in row.todo[j].lines
      BY DEF Guarded
    <2>1. l \in row.lines /\ l \notin edited /\ config' = config
      BY DEF InHand, Planned
    <2> QED BY <2>1 DEF InHand, Guarded
  <1>3. Drawn(row)'
    <2> SUFFICES ASSUME NEW m \in row.drew
                 PROVE  /\ m.line \in row.lines /\ stage'[m.line] = StageFor(m.dir)
                        /\ m.line \notin edited' =>
                             /\ m.need = Need[config'][m.line]
                             /\ m.dir = -1 => m.line \in Sellable[config']
      BY DEF Drawn, StageFor
    <2> QED BY DEF InHand, Drawn
  <1> QED BY <1>1, <1>2, <1>3 DEF InHand

LEMMA StartLines ==
  ASSUME LinesInv, NEW r \in Requests, NEW row \in RequestRow, Starts(r, row) PROVE LinesInv'
  <1>1. Typed' /\ \A s \in Requests : req'[s] = IF s = r THEN row ELSE req[s]
    BY StartTyped DEF LinesInv
  <1>2. /\ UNCHANGED <<stage, took, gave, config>>
        /\ edited' = edited \ {l \in row.lines : stage[l] = "absent"}
        /\ \A s \in Requests : row.lines \cap req[s].lines = {}
    BY DEF Starts, kardexVars, Claimed
  <1>3. ClaimsApart'
    BY <1>1, <1>2 DEF LinesInv, ClaimsApart
  <1>4. Settled'
    BY <1>2 DEF LinesInv, Settled
  <1>5. InHand(row)'
    <2>1. Planned(row)' /\ Drawn(row)'
      BY <1>2 DEF Starts, Planned, Drawn, StageFor
    <2>2. Guarded(row)'
      BY <1>2 DEF Starts, GuardFirst, Guarded
    <2> QED BY <2>1, <2>2 DEF InHand
  <1>6. ASSUME NEW s \in Requests, s # r PROVE InHand(req[s])'
    <2>1. /\ req'[s] = req[s] /\ req[s] \in RequestRow /\ req[s].todo \in Seq(StepRow)
          /\ InHand(req[s])
      BY <1>1, <1>6 DEF LinesInv, Typed, RowTyped, RequestRow
    <2> DEFINE q == req[s]
    <2>2. \A l \in q.lines : stage'[l] = stage[l] /\ (l \notin edited' => l \notin edited)
      BY <1>2
    <2> QED BY <1>2, <2>1, <2>2, InHandStays DEF InHand, Planned, Guarded, Drawn
  <1> QED BY <1>1, <1>3, <1>4, <1>5, <1>6 DEF LinesInv, InHand, Planned, Guarded, Drawn

\* Doing a step keeps the plan of the rest, and what is drawn is as planned.
LEMMA GoesInHand ==
  ASSUME LinesInv, NEW r \in Requests, NEW row \in RequestRow, NEW steps \in Seq(StepRow),
         Goes(r, row, steps)
  PROVE  InHand(row)
  <1> DEFINE old == req[r].todo
             new == row.todo
             n == Len(steps)
             st == Head1(r)
  <1>1. /\ old \in Seq(StepRow) /\ old # <<>> /\ new = Then(r, steps) /\ InHand(req[r])
        /\ row.lines = req[r].lines
    BY DEF LinesInv, Goes, Typed, RowTyped, RequestRow, SameRequest
  <1>2. /\ 1 \in DOMAIN old /\ old[1] = st /\ n \in Nat
        /\ \A i \in DOMAIN new : i \in Nat /\ i >= 1
        /\ \A i \in DOMAIN new : i <= n => i \in DOMAIN steps /\ new[i] = steps[i]
        /\ \A i \in DOMAIN new : i > n => i - n + 1 \in DOMAIN old /\ new[i] = old[i - n + 1]
        /\ \A j \in DOMAIN old : j \in Nat /\ j >= 1
        /\ \A j \in DOMAIN old : j > 1 => j - 1 + n \in DOMAIN new /\ new[j - 1 + n] = old[j]
    BY <1>1, ThenAt
  <1>3. /\ st.op = "ensure" => n = 0 /\ st.lines \subseteq Sellable[config]
        /\ \A k \in DOMAIN steps :
             /\ steps[k].op = "plan" => st.op = "plan"
             /\ steps[k].lines \subseteq st.lines
             /\ steps[k].lines # {} => steps[k].dir = st.dir
        /\ \A m \in row.drew \ req[r].drew :
             st.op = "plan" /\ m.line \in st.lines /\ m.dir = st.dir /\ m.need = Need[config][m.line]
    BY DEF Goes
  <1> HIDE DEF old, new, n, st
  <1>4. /\ \A i \in DOMAIN old : \A l \in old[i].lines :
             l \in row.lines /\ stage[l] = StageFor(old[i].dir)
        /\ \A i \in DOMAIN old : \A l \in old[i].lines \ edited :
             old[i].op = "plan" /\ old[i].dir = -1 =>
               \/ l \in Sellable[config]
               \/ \E j \in DOMAIN old : j < i /\ old[j].op = "ensure" /\ l \in old[j].lines
        /\ Drawn(req[r])
    BY <1>1 DEF InHand, Planned, Guarded, old
  <1>5. ASSUME NEW i \in DOMAIN new, NEW l \in new[i].lines
        PROVE  l \in row.lines /\ stage[l] = StageFor(new[i].dir)
    <2>1. CASE i <= n
      BY <1>2, <1>3, <1>4, <1>5, <2>1
    <2>2. CASE i > n
      BY <1>2, <1>4, <1>5, <2>2
    <2> QED BY <1>2, <2>1, <2>2
  \* What the first step sells, the guard has passed.
  <1>6. ASSUME NEW l \in st.lines, l \notin edited, st.op = "plan", st.dir = -1
        PROVE  l \in Sellable[config]
    <2>1. \A j \in DOMAIN old : ~(j < 1)
      BY <1>2
    <2> QED BY <1>2, <1>4, <1>6, <2>1
  <1>7. ASSUME NEW i \in DOMAIN new, NEW l \in new[i].lines, l \notin edited,
               new[i].op = "plan", new[i].dir = -1, l \notin Sellable[config]
        PROVE  \E j \in DOMAIN new : j < i /\ new[j].op = "ensure" /\ l \in new[j].lines
    <2>1. CASE i <= n
      BY <1>2, <1>3, <1>6, <1>7, <2>1
    <2>2. CASE i > n
      <3>1. i - n + 1 \in DOMAIN old /\ new[i] = old[i - n + 1]
        BY <1>2, <2>2
      <3>2. PICK j \in DOMAIN old : j < i - n + 1 /\ old[j].op = "ensure" /\ l \in old[j].lines
        BY <1>4, <1>7, <3>1
      <3>3. j # 1
        BY <1>2, <1>3, <1>7, <3>2
      <3>4. j > 1 /\ j \in Nat /\ i \in Nat
        BY <1>2, <3>3
      <3>5. j - 1 + n < i
        BY <1>2, <3>2, <3>4
      <3> QED BY <1>2, <3>2, <3>4, <3>5
    <2> QED BY <1>2, <2>1, <2>2
  <1>8. ASSUME NEW m \in row.drew
        PROVE  /\ m.line \in row.lines /\ stage[m.line] = StageFor(m.dir)
               /\ m.line \notin edited =>
                    m.need = Need[config][m.line] /\ (m.dir = -1 => m.line \in Sellable[config])
    <2>1. CASE m \in req[r].drew
      BY <1>1, <1>4, <2>1 DEF Drawn
    <2>2. CASE m \notin req[r].drew
      BY <1>2, <1>3, <1>4, <1>6, <2>2
    <2> QED BY <2>1, <2>2
  <1> QED BY <1>5, <1>7, <1>8 DEF InHand, Planned, Guarded, Drawn, new

\* A request changes its own row, about the same lines or none.
LEMMA UpdateLines ==
  ASSUME LinesInv, NEW r \in Requests, NEW row \in RequestRow, RowTyped(row), Update(r, row),
         row.lines \subseteq req[r].lines, InHand(row)
  PROVE  LinesInv'
  <1>1. Typed' /\ \A s \in Requests : req'[s] = IF s = r THEN row ELSE req[s]
    BY UpdateTyped DEF LinesInv
  <1>2. UNCHANGED <<stage, took, gave, config, edited>>
    BY DEF Update, kardexVars
  <1>3. ClaimsApart' /\ Settled'
    BY <1>1, <1>2 DEF LinesInv, ClaimsApart, Settled
  <1>4. \A s \in Requests : InHand(req[s])'
    BY <1>1, <1>2 DEF LinesInv, InHand, Planned, Guarded, Drawn, StageFor
  <1> QED BY <1>1, <1>3, <1>4 DEF LinesInv

\* What a commit writes of a line: the sale or the void that its request drew.
LEMMA CommitLines ==
  ASSUME LinesInv, NEW r \in Requests, Commit(r) PROVE LinesInv'
  <1>1. Typed' /\ \A s \in Requests : req'[s] = IF s = r THEN Idle ELSE req[s]
    BY CommitTyped DEF LinesInv
  <1>2. /\ InHand(req[r]) /\ config' = config /\ edited' = edited /\ config \in Configs
        /\ req[r].drew \subseteq DrawRow
    BY DEF LinesInv, Commit, Typed, TypeOK, RowTyped, RequestRow
  <1>3. ASSUME NEW l \in Lines, NEW d \in {-1, 1}, Drew(r, l, d) # {}
        PROVE  /\ l \in req[r].lines /\ stage[l] = StageFor(d)
               /\ l \notin edited => /\ \A old : Written(r, l, d, old) = Need[config][l]
                                     /\ d = -1 => l \in Sellable[config]
    <2> DEFINE m == CHOOSE m \in Drew(r, l, d) : TRUE
    <2>1. m \in Drew(r, l, d)
      BY <1>3
    <2>2. \A old : Written(r, l, d, old) = m.need
      BY <1>3 DEF Written
    <2> HIDE DEF m
    <2>3. m \in req[r].drew /\ m.line = l /\ m.dir = d
      BY <2>1 DEF Drew
    <2> QED BY <1>2, <2>2, <2>3 DEF InHand, Drawn
  <1>4. ASSUME NEW l \in Lines
        PROVE  /\ stage'[l] = IF Drew(r, l, -1) # {} THEN "sold"
                              ELSE IF Drew(r, l, 1) # {} THEN "voided" ELSE stage[l]
               /\ took'[l] = Written(r, l, -1, took[l])
               /\ gave'[l] = Written(r, l, 1, gave[l])
    BY DEF Commit
  <1>5. ASSUME NEW l \in Lines, NEW d \in {-1, 1}, Drew(r, l, d) = {}
        PROVE  \A old : Written(r, l, d, old) = old
    BY <1>5 DEF Written
  <1>6. Settled'
    <2> SUFFICES ASSUME NEW l \in Lines, l \notin edited
                 PROVE  /\ stage'[l] = "sold" =>
                             l \in Sellable[config] /\ took'[l] = Need[config][l]
                        /\ stage'[l] = "voided" =>
                             /\ gave'[l] = took'[l]
                             /\ \E c \in Configs : l \in Sellable[c] /\ took'[l] = Need[c][l]
      BY <1>2 DEF Settled
    <2>1. CASE Drew(r, l, -1) # {}
      BY <1>3, <1>4, <2>1
    <2>2. CASE Drew(r, l, -1) = {} /\ Drew(r, l, 1) # {}
      <3>1. stage[l] = "sold" /\ gave'[l] = Need[config][l] /\ took'[l] = took[l]
        BY <1>3, <1>4, <1>5, <2>2 DEF StageFor
      <3>2. l \in Sellable[config] /\ took[l] = Need[config][l]
        BY <3>1 DEF LinesInv, Settled
      <3>3. stage'[l] = "voided"
        BY <1>4, <2>2
      <3> QED BY <1>2, <3>1, <3>2, <3>3
    <2>3. CASE Drew(r, l, -1) = {} /\ Drew(r, l, 1) = {}
      <3>1. stage'[l] = stage[l] /\ took'[l] = took[l] /\ gave'[l] = gave[l]
        BY <1>4, <1>5, <2>3
      <3> QED BY <3>1 DEF LinesInv, Settled
    <2> QED BY <2>1, <2>2, <2>3
  <1>7. ClaimsApart'
    BY <1>1 DEF LinesInv, ClaimsApart, Idle
  <1>8. ASSUME NEW s \in Requests, s # r PROVE InHand(req[s])'
    <2>1. /\ req'[s] = req[s] /\ req[s] \in RequestRow /\ req[s].todo \in Seq(StepRow)
          /\ InHand(req[s]) /\ req[s].lines \subseteq Lines
      BY <1>1, <1>8 DEF LinesInv, Typed, RowTyped, RequestRow
    <2>2. \A l \in req[s].lines : stage'[l] = stage[l] /\ (l \notin edited' => l \notin edited)
      <3> SUFFICES ASSUME NEW l \in req[s].lines PROVE stage'[l] = stage[l]
        BY <1>2
      <3>1. l \in Lines /\ l \notin req[r].lines
        BY <1>8, <2>1 DEF LinesInv, ClaimsApart
      <3>2. Drew(r, l, -1) = {} /\ Drew(r, l, 1) = {}
        BY <1>3, <3>1
      <3> QED BY <1>4, <3>1, <3>2
    <2> QED BY <1>2, <2>1, <2>2, InHandStays DEF InHand, Planned, Guarded, Drawn
  <1>9. InHand(req[r])'
    BY <1>1, IdleInHand DEF InHand, Planned, Guarded, Drawn, Idle
  <1> QED BY <1>1, <1>6, <1>7, <1>8, <1>9 DEF LinesInv

\* An edit of the catalogue marks the lines that requests are about, and the sold ones.
LEMMA EditLines ==
  ASSUME LinesInv, NEW c \in Configs, EditCatalogue(c) PROVE LinesInv'
  <1>1. Typed'
    BY StepTyped DEF LinesInv, Next
  <1>2. /\ UNCHANGED <<stage, took, gave, req>> /\ config' = c
        /\ edited' = edited \cup {l \in Lines : stage[l] = "sold" \/ Claimed(l)}
    BY DEF EditCatalogue, kardexVars
  <1>3. ClaimsApart' /\ Settled'
    BY <1>2 DEF LinesInv, ClaimsApart, Settled
  <1>4. ASSUME NEW s \in Requests PROVE InHand(req[s])'
    <2>1. /\ req'[s] = req[s] /\ req[s] \in RequestRow /\ req[s].todo \in Seq(StepRow)
          /\ InHand(req[s]) /\ req[s].lines \subseteq Lines
      BY <1>2 DEF LinesInv, Typed, RowTyped, RequestRow
    <2>2. req[s].lines \subseteq edited'
      BY <1>2, <2>1 DEF Claimed
    <2>3. \A l \in req[s].lines : stage'[l] = stage[l] /\ (l \notin edited' => l \notin edited)
      BY <1>2
    <2> QED BY <2>1, <2>2, <2>3, InHandStays DEF InHand, Planned, Guarded, Drawn
  <1> QED BY <1>1, <1>3, <1>4 DEF LinesInv

LEMMA StepLines == ASSUME LinesInv, [Next]_vars PROVE LinesInv'
  <1>0. Typed
    BY DEF LinesInv
  <1>1. ASSUME NEW r \in Requests, Start(r) PROVE LinesInv'
    BY <1>1, StartLines DEF Start
  <1>2. ASSUME NEW r \in Requests, GoesOn(r) PROVE LinesInv'
    <2>1. PICK row \in RequestRow, steps \in Seq(StepRow) : Goes(r, row, steps)
      BY <1>2 DEF GoesOn
    <2> QED BY <2>1, GoesInHand, UpdateLines DEF Goes, SameRequest
  <1>3. ASSUME NEW r \in Requests, Update(r, Idle) PROVE LinesInv'
    <2>1. Idle \in RequestRow /\ Idle.lines = {}
      BY IdleTyped DEF RowTyped, Idle
    <2> QED BY <1>3, <2>1, IdleTyped, IdleInHand, UpdateLines
  <1>4. ASSUME NEW r \in Requests, Commit(r) PROVE LinesInv'
    BY <1>4, CommitLines
  <1>5. ASSUME NEW p \in Purchases, NEW q \in Amounts, CreatePurchaseOrder(p, q) PROVE LinesInv'
    <2>1. Typed'
      BY <1>0, StepTyped
    <2> QED BY <1>5, <2>1 DEF LinesInv, ClaimsApart, Settled, InHand, Planned, Guarded, Drawn,
                             StageFor, CreatePurchaseOrder
  <1>6. ASSUME NEW c \in Configs, EditCatalogue(c) PROVE LinesInv'
    BY <1>6, EditLines
  <1>7. CASE UNCHANGED vars
    <2>1. Typed'
      BY <1>0, StepTyped
    <2> QED BY <1>7, <2>1 DEF LinesInv, ClaimsApart, Settled, InHand, Planned, Guarded, Drawn,
                             StageFor, vars
  <1> QED BY <1>0, <1>1, <1>2, <1>3, <1>4, <1>5, <1>6, <1>7, Shapes

LEMMA InitLines == Init => LinesInv
  <1> SUFFICES ASSUME Init PROVE LinesInv
    OBVIOUS
  <1>1. \A r \in Requests : req[r] = Idle /\ req[r].lines = {}
    BY DEF Init, Idle
  <1> QED BY <1>1, InitTyped, IdleInHand DEF Init, LinesInv, ClaimsApart, Settled

\* Whatever overlaps: the sale of a line took out what the catalogue asks for it, which the
\* guard had let pass, and its void put back exactly what the sale took, unless the catalogue
\* was edited while a request was at it or between the two.
THEOREM SalesAndVoidsBalance == Spec => []LinesBalance
  <1>1. LinesInv => LinesBalance
    BY DEF LinesInv, Typed, TypeOK, Settled, LinesBalance
  <1> QED BY <1>1, InitLines, StepLines, PTL DEF Spec

-----------------------------------------------------------------------------
(* What receptions brought in: they run alone.                                              *)

ReceivesAlone == \A r, s \in Requests : r # s /\ req[r].kind = "receive" => req[s].kind = "idle"

\* An order that does not exist has received nothing.
AbsentIsEmpty == \A p \in Purchases : purchase[p].status = "absent" => purchase[p].got = None

ReceptionsInv ==
  /\ Typed /\ ReceivedIsEntered /\ AbsentIsEmpty /\ ReceivesAlone
  /\ \A r \in Requests : Fits(req[r])

LEMMA IdleFits == Fits(Idle) /\ Idle.kind = "idle"
  BY DEF Fits, Idle

\* A request changes its own row, for the same order or none.
LEMMA RowFits ==
  ASSUME ReceptionsInv, NEW r \in Requests, NEW row \in RequestRow, Typed',
         \A s \in Requests : req'[s] = IF s = r THEN row ELSE req[s],
         UNCHANGED <<purchase, entered>>, Fits(row),
         \/ row.kind \in {req[r].kind, "idle"}
         \/ "receive" \in Alone /\ MayStart(row.kind) /\ req[r].kind = "idle"
  PROVE  ReceptionsInv'
  <1>1. ReceivesAlone'
    BY DEF ReceptionsInv, ReceivesAlone, MayStart
  <1>2. ReceivedIsEntered' /\ AbsentIsEmpty'
    BY DEF ReceptionsInv, ReceivedIsEntered, AbsentIsEmpty
  <1>3. \A s \in Requests : Fits(req[s])'
    BY DEF ReceptionsInv, Fits
  <1> QED BY <1>1, <1>2, <1>3 DEF ReceptionsInv

LEMMA GoesFits ==
  ASSUME ReceptionsInv, NEW r \in Requests, NEW row \in RequestRow, NEW steps \in Seq(StepRow),
         Goes(r, row, steps)
  PROVE  ReceptionsInv'
  <1>1. Typed' /\ \A s \in Requests : req'[s] = IF s = r THEN row ELSE req[s]
    BY UpdateTyped DEF ReceptionsInv, Goes
  <1>2. UNCHANGED <<purchase, entered>> /\ Fits(row) /\ row.kind = req[r].kind
    BY DEF ReceptionsInv, Goes, SameRequest, Fits, Update, kardexVars
  <1> QED BY <1>1, <1>2, RowFits

\* What the commit of a reception writes of its order.
LEMMA ReceivedFits ==
  ASSUME ReceptionsInv, NEW r \in Requests, NEW p \in Purchases, p \in req[r].order
  PROVE  /\ req[r].order = {p} /\ req[r].kind = "receive"
         /\ Received(r, p).qty = purchase[p].qty /\ Received(r, p).status \in {"received", "partial"}
         /\ Received(r, p).got = [g \in Items |-> entered[p][g] + req[r].now[g]]
         /\ \A g \in Items : Received(r, p).got[g] <= purchase[p].qty[g]
         /\ Received(r, p).status = "received" => Received(r, p).got = purchase[p].qty
  <1>1. /\ purchase[p] \in PurchaseRow /\ purchase[p].qty \in Qty
        /\ req[r].got \in Qty /\ req[r].now \in Qty
    BY DEF ReceptionsInv, Typed, TypeOK, RowTyped, RequestRow, PurchaseRow
  <1>2. /\ req[r].order = {p} /\ req[r].kind = "receive" /\ req[r].got = purchase[p].got
        /\ \A g \in Items : req[r].got[g] + req[r].now[g] <= purchase[p].qty[g]
        /\ purchase[p].got = entered[p]
    BY DEF ReceptionsInv, Fits, ReceivedIsEntered
  <1> DEFINE got == [g \in Items |-> req[r].got[g] + req[r].now[g]]
             all == \A g \in Items : got[g] >= purchase[p].qty[g]
  <1>3. Received(r, p) =
          [purchase[p] EXCEPT !.got = got, !.status = IF all THEN "received" ELSE "partial"]
    BY DEF Received
  <1>4. got \in Qty /\ \A g \in Items : got[g] <= purchase[p].qty[g]
    BY <1>1, <1>2 DEF Qty
  <1>5. all => got = purchase[p].qty
    BY <1>1, <1>4 DEF Qty
  <1>6. got = [g \in Items |-> entered[p][g] + req[r].now[g]]
    BY <1>2
  <1> HIDE DEF got, all
  <1>7. /\ Received(r, p).got = got /\ Received(r, p).qty = purchase[p].qty
        /\ Received(r, p).status = IF all THEN "received" ELSE "partial"
    BY <1>1, <1>3 DEF PurchaseRow
  <1> QED BY <1>2, <1>4, <1>5, <1>6, <1>7

LEMMA CommitFits ==
  ASSUME ReceptionsInv, NEW r \in Requests, Commit(r) PROVE ReceptionsInv'
  <1>1. Typed' /\ \A s \in Requests : req'[s] = IF s = r THEN Idle ELSE req[s]
    BY CommitTyped DEF ReceptionsInv
  <1>2. \A p \in Purchases :
          /\ purchase'[p] = IF p \in req[r].order THEN Received(r, p) ELSE purchase[p]
          /\ entered'[p] = IF p \in req[r].order
                           THEN [g \in Items |-> entered[p][g] + req[r].now[g]] ELSE entered[p]
    BY DEF Commit
  <1>3. ReceivedIsEntered' /\ AbsentIsEmpty'
    <2> SUFFICES ASSUME NEW p \in Purchases
                 PROVE  /\ purchase'[p].got = entered'[p]
                        /\ \A g \in Items : purchase'[p].got[g] <= purchase'[p].qty[g]
                        /\ purchase'[p].status = "received" => purchase'[p].got = purchase'[p].qty
                        /\ purchase'[p].status = "absent" => purchase'[p].got = None
      BY DEF ReceivedIsEntered, AbsentIsEmpty, None
    <2>1. CASE p \in req[r].order
      <3> DEFINE now == Received(r, p)
                 sum == [g \in Items |-> entered[p][g] + req[r].now[g]]
      <3>1. /\ now.qty = purchase[p].qty /\ now.status \in {"received", "partial"} /\ now.got = sum
            /\ \A g \in Items : now.got[g] <= purchase[p].qty[g]
            /\ now.status = "received" => now.got = purchase[p].qty
        BY <2>1, ReceivedFits
      <3>2. purchase'[p] = now /\ entered'[p] = sum
        BY <1>2, <2>1
      <3> HIDE DEF now, sum
      <3> QED BY <3>1, <3>2
    <2>2. CASE p \notin req[r].order
      BY <1>2, <2>2 DEF ReceptionsInv, ReceivedIsEntered, AbsentIsEmpty
    <2> QED BY <2>1, <2>2
  <1>4. ReceivesAlone'
    BY <1>1, IdleFits DEF ReceptionsInv, ReceivesAlone
  <1>5. ASSUME NEW s \in Requests PROVE Fits(req[s])'
    <2>1. CASE s = r
      BY <1>1, <2>1, IdleFits DEF Fits
    <2>2. CASE s # r
      <3>1. req'[s] = req[s] /\ Fits(req[s])
        BY <1>1, <2>2 DEF ReceptionsInv
      <3>2. CASE req[s].kind # "receive"
        BY <3>1, <3>2 DEF Fits
      <3>3. CASE req[s].kind = "receive"
        <4>1. req[r].kind = "idle"
          BY <2>2, <3>3 DEF ReceptionsInv, ReceivesAlone
        <4> QED BY <4>1 DEF Commit
      <3> QED BY <3>2, <3>3
    <2> QED BY <2>1, <2>2
  <1> QED BY <1>1, <1>3, <1>4, <1>5 DEF ReceptionsInv

LEMMA OrderFits ==
  ASSUME ReceptionsInv, NEW p \in Purchases, NEW q \in Amounts, CreatePurchaseOrder(p, q)
  PROVE  ReceptionsInv'
  <1>1. Typed'
    BY StepTyped DEF ReceptionsInv, Next
  <1>2. /\ purchase[p].status = "absent" /\ UNCHANGED <<req, entered>> /\ q \in Qty
        /\ \A o \in Purchases : purchase'[o] =
             IF o = p THEN [status |-> "draft", qty |-> q, got |-> None] ELSE purchase[o]
    BY InventoryAssumption DEF CreatePurchaseOrder, ReceptionsInv, Typed, TypeOK, Qty
  <1>3. ReceivedIsEntered' /\ AbsentIsEmpty'
    <2> SUFFICES ASSUME NEW o \in Purchases
                 PROVE  /\ purchase'[o].got = entered'[o]
                        /\ \A g \in Items : purchase'[o].got[g] <= purchase'[o].qty[g]
                        /\ purchase'[o].status = "received" => purchase'[o].got = purchase'[o].qty
                        /\ purchase'[o].status = "absent" => purchase'[o].got = None
      BY DEF ReceivedIsEntered, AbsentIsEmpty, None
    <2>1. CASE o = p
      <3>1. entered[p] = None
        BY <1>2 DEF ReceptionsInv, ReceivedIsEntered, AbsentIsEmpty
      <3>2. \A g \in Items : None[g] <= q[g]
        BY <1>2, NoneIsQty DEF Qty
      <3> QED BY <1>2, <2>1, <3>1, <3>2
    <2>2. CASE o # p
      BY <1>2, <2>2 DEF ReceptionsInv, ReceivedIsEntered, AbsentIsEmpty
    <2> QED BY <2>1, <2>2
  <1>4. ReceivesAlone'
    BY <1>2 DEF ReceptionsInv, ReceivesAlone
  <1>5. ASSUME NEW s \in Requests PROVE Fits(req[s])'
    BY <1>2 DEF ReceptionsInv, Fits
  <1> QED BY <1>1, <1>3, <1>4, <1>5 DEF ReceptionsInv

LEMMA StepFits == ASSUME "receive" \in Alone, ReceptionsInv, [Next]_vars PROVE ReceptionsInv'
  <1>0. Typed /\ Typed'
    BY StepTyped DEF ReceptionsInv
  <1>1. ASSUME NEW r \in Requests, Start(r) PROVE ReceptionsInv'
    <2>1. PICK row \in RequestRow : Starts(r, row)
      BY <1>1 DEF Start
    <2>2. \A s \in Requests : req'[s] = IF s = r THEN row ELSE req[s]
      BY <1>0, <2>1, StartTyped
    <2>3. /\ UNCHANGED <<purchase, entered>> /\ Fits(row) /\ MayStart(row.kind)
          /\ req[r].kind = "idle"
      BY <2>1 DEF Starts, kardexVars, Idle
    <2> QED BY <1>0, <2>2, <2>3, RowFits
  <1>2. ASSUME NEW r \in Requests, GoesOn(r) PROVE ReceptionsInv'
    BY <1>2, GoesFits DEF GoesOn
  <1>3. ASSUME NEW r \in Requests, Update(r, Idle) PROVE ReceptionsInv'
    <2>1. \A s \in Requests : req'[s] = IF s = r THEN Idle ELSE req[s]
      BY <1>0, <1>3, UpdateTyped, IdleTyped
    <2>2. UNCHANGED <<purchase, entered>> /\ Idle \in RequestRow
      BY <1>3, IdleTyped DEF Update, kardexVars, RowTyped
    <2> QED BY <1>0, <2>1, <2>2, IdleFits, RowFits
  <1>4. ASSUME NEW r \in Requests, Commit(r) PROVE ReceptionsInv'
    BY <1>4, CommitFits
  <1>5. ASSUME NEW p \in Purchases, NEW q \in Amounts, CreatePurchaseOrder(p, q)
        PROVE  ReceptionsInv'
    BY <1>5, OrderFits
  <1>6. ASSUME NEW c \in Configs, EditCatalogue(c) PROVE ReceptionsInv'
    BY <1>0, <1>6 DEF ReceptionsInv, ReceivedIsEntered, AbsentIsEmpty, ReceivesAlone, Fits, None,
                      EditCatalogue, kardexVars
  <1>7. CASE UNCHANGED vars
    BY <1>0, <1>7 DEF ReceptionsInv, ReceivedIsEntered, AbsentIsEmpty, ReceivesAlone, Fits, None,
                      vars
  <1> QED BY <1>0, <1>1, <1>2, <1>3, <1>4, <1>5, <1>6, <1>7, Shapes

LEMMA InitFits == Init => ReceptionsInv
  <1> SUFFICES ASSUME Init PROVE ReceptionsInv
    OBVIOUS
  <1>1. \A r \in Requests : req[r] = Idle
    BY DEF Init
  <1>2. ReceivedIsEntered /\ AbsentIsEmpty
    BY DEF Init, ReceivedIsEntered, AbsentIsEmpty, None
  <1> QED BY <1>1, <1>2, InitTyped, IdleFits DEF ReceptionsInv, ReceivesAlone

\* Sales and voids balance; and where receptions run alone (two of one order would read the
\* same remainder), an order of purchase says that it received what its kardex rows brought
\* in, never more than was ordered, and is received only when nothing is left.
THEOREM OrdersAccounted == ASSUME "receive" \in Alone PROVE Spec => []OrdersAreAccounted
  <1>1. ReceptionsInv /\ LinesBalance => OrdersAreAccounted
    BY DEF ReceptionsInv, OrdersAreAccounted
  <1>2. Spec => []ReceptionsInv
    BY InitFits, StepFits, PTL DEF Spec
  <1> QED BY <1>1, <1>2, SalesAndVoidsBalance, PTL

-----------------------------------------------------------------------------
(* Waiting in lock_items.                                                                   *)

LocksInv == Typed /\ \A r \in Requests : Orderly(req[r])

\* Taking the lowest item that is pending leaves the held ones below the pending ones.
LEMMA GoesOrderly ==
  ASSUME LocksInv, NEW r \in Requests, NEW row \in RequestRow, NEW steps \in Seq(StepRow),
         Goes(r, row, steps)
  PROVE  Orderly(row)
  <1> DEFINE old == req[r].todo
             new == row.todo
             n == Len(steps)
             st == Head1(r)
  <1>1. /\ old \in Seq(StepRow) /\ old # <<>> /\ new = Then(r, steps) /\ Orderly(req[r])
        /\ row.kind = req[r].kind
        /\ st.rem \in Qty /\ req[r].held \subseteq Items
    BY FirstStep DEF LocksInv, Goes, Typed, RowTyped, RequestRow, SameRequest
  <1>2. /\ 1 \in DOMAIN old /\ old[1] = st /\ n \in Nat
        /\ \A i \in DOMAIN new : i \in Nat /\ i >= 1
        /\ \A i \in DOMAIN new : i <= n => i \in DOMAIN steps /\ new[i] = steps[i]
        /\ \A i \in DOMAIN new : i > n => i - n + 1 \in DOMAIN old /\ new[i] = old[i - n + 1]
        /\ \A j \in DOMAIN old : j \in Nat /\ j >= 1
    BY <1>1, ThenAt
  <1>3. /\ st.op = "ensure" => n = 0
        /\ \A k \in DOMAIN steps :
             /\ steps[k].op # "lock"
             /\ steps[k].op = "locking" =>
                  /\ st.op \in {"lock", "locking"} /\ k = 1
                  /\ st.op = "locking" => \E g \in Lowest(Pending(st.rem)) :
                       row.held = req[r].held \cup {g}
                         /\ Pending(steps[k].rem) = Pending(st.rem) \ {g}
        /\ st.op \in {"ensure", "lock"} => row.held = req[r].held
    BY DEF Goes
  <1> HIDE DEF old, new, n, st
  <1> SUFFICES ASSUME row.kind # "replace", NEW i \in DOMAIN new, new[i].op \in {"lock", "locking"}
               PROVE  /\ \A j \in DOMAIN new : j < i => new[j].op = "ensure"
                      /\ new[i].op = "lock" => row.held = {}
                      /\ \A h \in row.held, g \in Pending(new[i].rem) : h < g
    BY DEF Orderly, new
  <1>4. \A k \in DOMAIN old : old[k].op \in {"lock", "locking"} =>
          /\ \A j \in DOMAIN old : j < k => old[j].op = "ensure"
          /\ old[k].op = "lock" => req[r].held = {}
          /\ \A h \in req[r].held, g \in Pending(old[k].rem) : h < g
    BY <1>1 DEF Orderly, old
  <1>5. CASE i <= n
    <2>1. /\ new[i] = steps[i] /\ steps[i].op = "locking" /\ i = 1
          /\ st.op \in {"lock", "locking"}
      BY <1>2, <1>3, <1>5
    <2>2. \A j \in DOMAIN new : ~(j < i)
      BY <1>2, <2>1
    <2>3. CASE st.op = "lock"
      <3>1. row.held = {}
        BY <1>2, <1>3, <1>4, <2>3
      <3> QED BY <2>1, <2>2, <3>1
    <2>4. CASE st.op = "locking"
      <3>1. PICK g \in Lowest(Pending(st.rem)) :
              row.held = req[r].held \cup {g} /\ Pending(new[i].rem) = Pending(st.rem) \ {g}
        BY <1>2, <1>3, <1>5, <2>1, <2>4
      <3>2. Pending(st.rem) \subseteq Nat
        BY InventoryAssumption DEF Pending
      <3>3. ASSUME NEW h \in Pending(st.rem), h # g PROVE g < h
        BY <3>1, <3>2, <3>3 DEF Lowest
      <3>4. ASSUME NEW h \in row.held, NEW k \in Pending(new[i].rem) PROVE h < k
        <4>1. CASE h \in req[r].held
          BY <1>2, <1>4, <2>4, <3>1, <4>1
        <4>2. CASE h = g
          BY <3>1, <3>3, <4>2
        <4> QED BY <3>1, <4>1, <4>2
      <3> QED BY <2>1, <2>2, <3>4
    <2> QED BY <2>1, <2>3, <2>4
  <1>6. CASE i > n
    <2> DEFINE k == i - n + 1
    <2>1. k \in DOMAIN old /\ new[i] = old[k] /\ 1 < k
      BY <1>2, <1>6
    <2>2. st.op = "ensure"
      BY <1>2, <1>4, <2>1
    <2>3. n = 0 /\ row.held = req[r].held
      BY <1>3, <2>2
    <2>4. \A j \in DOMAIN new : j < i => new[j].op = "ensure"
      <3> SUFFICES ASSUME NEW j \in DOMAIN new, j < i PROVE new[j].op = "ensure"
        OBVIOUS
      <3>1. j \in Nat /\ j > n /\ j - n + 1 \in DOMAIN old /\ new[j] = old[j - n + 1]
        BY <1>2, <2>3
      <3>2. j - n + 1 < k
        BY <1>2, <2>3, <3>1
      <3> QED BY <1>4, <2>1, <3>1, <3>2
    <2> QED BY <1>4, <2>1, <2>3, <2>4
  <1> QED BY <1>2, <1>5, <1>6

LEMMA IdleOrderly == Orderly(Idle)
  BY DEF Orderly, Idle

LEMMA StepOrderly == ASSUME LocksInv, [Next]_vars PROVE LocksInv'
  <1>0. Typed /\ Typed'
    BY StepTyped DEF LocksInv
  <1>1. ASSUME NEW r \in Requests, Start(r) PROVE LocksInv'
    <2>1. PICK row \in RequestRow : Starts(r, row)
      BY <1>1 DEF Start
    <2>2. (\A s \in Requests : req'[s] = IF s = r THEN row ELSE req[s]) /\ Orderly(row)
      BY <1>0, <2>1, StartTyped DEF Starts
    <2> QED BY <1>0, <2>2 DEF LocksInv, Orderly
  <1>2. ASSUME NEW r \in Requests, GoesOn(r) PROVE LocksInv'
    <2>1. PICK row \in RequestRow, steps \in Seq(StepRow) : Goes(r, row, steps)
      BY <1>2 DEF GoesOn
    <2>2. (\A s \in Requests : req'[s] = IF s = r THEN row ELSE req[s]) /\ Orderly(row)
      BY <1>0, <2>1, UpdateTyped, GoesOrderly DEF Goes
    <2> QED BY <1>0, <2>2 DEF LocksInv, Orderly
  <1>3. ASSUME NEW r \in Requests, Update(r, Idle) \/ Commit(r) PROVE LocksInv'
    <2>1. \A s \in Requests : req'[s] = IF s = r THEN Idle ELSE req[s]
      BY <1>0, <1>3, UpdateTyped, CommitTyped, IdleTyped
    <2> QED BY <1>0, <2>1, IdleOrderly DEF LocksInv, Orderly
  <1>4. ASSUME UNCHANGED req PROVE LocksInv'
    BY <1>0, <1>4 DEF LocksInv, Orderly
  <1>5. ASSUME NEW p \in Purchases, NEW q \in Amounts, CreatePurchaseOrder(p, q) PROVE LocksInv'
    BY <1>4, <1>5 DEF CreatePurchaseOrder
  <1>6. ASSUME NEW c \in Configs, EditCatalogue(c) PROVE LocksInv'
    BY <1>4, <1>6 DEF EditCatalogue
  <1>7. CASE UNCHANGED vars
    BY <1>4, <1>7 DEF vars
  <1> QED BY <1>0, <1>1, <1>2, <1>3, <1>5, <1>6, <1>7, Shapes

\* A finite set of numbers that is not empty has a last one.
LEMMA SomeLast ==
  ASSUME NEW W \in SUBSET Nat, IsFiniteSet(W), W # {}
  PROVE  \E w \in W : \A v \in W : v <= w
  <1> DEFINE After(w) == {v \in W : v > w}
             T == {After(w) : w \in W}
             R == StrictSubsetOrdering(W)
  <1>1. IsWellFoundedOn(R, FiniteSubsetsOf(W))
    BY FS_StrictSubsetOrderingWellFounded
  <1>2. T \subseteq FiniteSubsetsOf(W) /\ T # {}
    <2>1. ASSUME NEW w \in W PROVE After(w) \in SUBSET W /\ IsFiniteSet(After(w))
      <3>1. After(w) \in SUBSET W
        OBVIOUS
      <3> HIDE DEF After
      <3> QED BY <3>1, FS_Subset
    <2> HIDE DEF After
    <2> QED BY <2>1 DEF FiniteSubsetsOf
  <1>3. PICK x \in T : \A y \in T : ~(<<y, x>> \in R)
    BY <1>1, <1>2, WFMin
  <1>4. PICK w \in W : x = After(w)
    BY <1>3
  <1>5. ASSUME NEW v \in W, v > w PROVE FALSE
    <2>1. After(v) \in T /\ After(v) \in SUBSET W /\ x \in SUBSET W
      BY <1>4
    <2>2. After(v) \subseteq x
      <3> SUFFICES ASSUME NEW u \in W, u > v PROVE u > w
        BY <1>4
      <3>1. u \in Nat /\ v \in Nat /\ w \in Nat
        OBVIOUS
      <3> QED BY <1>5, <3>1
    <2>3. v \in x /\ v \notin After(v)
      <3>1. v \in Nat
        OBVIOUS
      <3> QED BY <1>4, <1>5, <3>1
    <2> QED BY <1>3, <2>1, <2>2, <2>3 DEF StrictSubsetOrdering
  <1> QED BY <1>5

\* Sales and voids of whatever lines, with catalogues edited under them: those that wait in
\* lock_items are never all of a circle, because what each waits for is above all it holds.
THEOREM OrderedLocks == Spec => []OrderedLocksNoCircle
  <1>1. ASSUME LocksInv PROVE OrderedLocksNoCircle
    <2> SUFFICES ASSUME NEW C \in SUBSET Requests, Circle(C),
                        \A r \in C : req[r].kind # "replace" /\ At(r, "locking")
                 PROVE  FALSE
      BY DEF OrderedLocksNoCircle
    <2> DEFINE W == {g \in Items : \E r \in C : g \in Wants(r)}
    <2>1. \A r \in C : Wants(r) = Lowest(Pending(Head1(r).rem)) /\ r \in Requests
      BY DEF Wants, NextToLock, At
    <2>2. \A r \in C : \E s \in C, g \in Items : g \in Wants(r) /\ g \in req[s].held
      BY <2>1 DEF Circle, WaitsFor, Lowest, Pending
    <2>3. ASSUME NEW r \in C, NEW g \in req[r].held, NEW h \in Wants(r) PROVE g < h
      <3>1. req[r].todo # <<>> /\ Head1(r).op = "locking" /\ req[r].kind # "replace"
        BY DEF At
      <3>2. 1 \in DOMAIN req[r].todo /\ req[r].todo[1] = Head1(r)
        <4>1. req[r].todo \in Seq(StepRow)
          BY <2>1, <3>1, <1>1, FirstStep DEF LocksInv
        <4> QED BY <3>1, <4>1 DEF Head1
      <3>3. h \in Pending(Head1(r).rem)
        BY <2>1 DEF Lowest
      <3> QED BY <1>1, <2>1, <3>1, <3>2, <3>3 DEF LocksInv, Orderly
    <2>4. W # {}
      BY <2>2 DEF Circle
    <2>5. IsFiniteSet(W) /\ W \in SUBSET Nat
      <3>1. W \in SUBSET Items
        OBVIOUS
      <3> HIDE DEF W
      <3> QED BY <3>1, InventoryAssumption, FS_Subset
    <2> HIDE DEF W
    <2>6. PICK w \in W : \A v \in W : v <= w
      BY <2>4, <2>5, SomeLast
    <2>7. PICK r \in C : w \in Wants(r)
      BY DEF W
    \* The one that holds what r waits for waits for a later item.
    <2>8. PICK s \in C, g \in Items : g \in Wants(r) /\ g \in req[s].held
      BY <2>2
    <2>9. g = w
      <3>1. g \in Nat /\ w \in Nat /\ g <= w /\ w <= g
        BY <2>1, <2>5, <2>6, <2>7, <2>8, InventoryAssumption DEF Lowest
      <3> QED BY <3>1
    <2>10. PICK t \in C, h \in Items : h \in Wants(s) /\ h \in req[t].held
      BY <2>2
    <2>11. h \in W /\ w < h
      BY <2>3, <2>8, <2>9, <2>10 DEF W
    <2> QED BY <2>5, <2>6, <2>11
  <1>2. Init => LocksInv
    BY InitTyped, IdleOrderly DEF Init, LocksInv
  <1> QED BY <1>1, <1>2, StepOrderly, PTL DEF Spec
=============================================================================
