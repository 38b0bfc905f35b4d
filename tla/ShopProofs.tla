------------------------------ MODULE ShopProofs ------------------------------
(***************************************************************************)
(* At no instant two rules in force cover one variant, whatever the        *)
(* promotions; no variant offers a group that was retired, and an included *)
(* group is free, whatever the edits that overlap.                         *)
(***************************************************************************)
EXTENDS Shop, TLAPS

-----------------------------------------------------------------------------
(* Promotions. *)

\* A promotion that is written with disjoint rules, which no other active promotion touches if
\* it is to be active, keeps the invariant.
LEMMA WritingKeeps ==
  ASSUME IInv, NEW p \in Promos, NEW st \in Statuses, NEW w, NEW R \in SUBSET RuleRow,
         Disjoint(R), st = "active" => ProductsFree(p, R), Write(p, st, w, R)
  PROVE  IInv'
<1>1. status' = [status EXCEPT ![p] = st] /\ rules' = [rules EXCEPT ![p] = R]
  BY DEF Write
<1>2. /\ status' \in [Promos -> Statuses] /\ rules' \in [Promos -> SUBSET RuleRow]
      /\ status'[p] = st /\ rules'[p] = R
      /\ \A q \in Promos \ {p} : status'[q] = status[q] /\ rules'[q] = rules[q]
  BY <1>1 DEF IInv
<1>3. \A q \in Promos : Disjoint(rules'[q])
  BY <1>2 DEF IInv
<1>4. ASSUME NEW a \in Promos, NEW b \in Promos, a # b,
             status'[a] = "active", status'[b] = "active"
      PROVE  ProductsOf(rules'[a]) \cap ProductsOf(rules'[b]) = {}
  <2>1. CASE a = p
    BY <2>1, <1>2, <1>4 DEF ProductsFree
  <2>2. CASE b = p
    BY <2>2, <1>2, <1>4 DEF ProductsFree
  <2>3. CASE a # p /\ b # p
    BY <2>3, <1>2, <1>4 DEF IInv
  <2> QED BY <2>1, <2>2, <2>3
<1> QED
  BY <1>2, <1>3, <1>4 DEF IInv, Disjoint

\* Rows that only leave the active status, or go, keep the invariant.
LEMMA LeavingKeeps ==
  ASSUME IInv, status' \in [Promos -> Statuses], rules' \in [Promos -> SUBSET RuleRow],
         \A q \in Promos : Disjoint(rules'[q]),
         \A q \in Promos : status'[q] = "active" =>
           status[q] = "active" /\ rules'[q] = rules[q]
  PROVE  IInv'
BY DEF IInv, Disjoint

\* The invariant is established by Init and kept by every request, by the job and by the clock.
THEOREM Invariance == Spec => []IInv
<1>1. Init => IInv
  BY DEF Init, IInv, Disjoint, Statuses
<1>2. IInv /\ [Next]_vars => IInv'
  <2> SUFFICES ASSUME IInv, [Next]_vars PROVE IInv'
    OBVIOUS
  <2> USE PromotionAssumption
  <2>1. ASSUME NEW p \in Promos, NEW st \in Statuses, NEW w \in Windows, NEW R \in RuleSets,
               Create(p, st, w, R)
        PROVE  IInv'
    BY <2>1, WritingKeeps DEF Create, Guards
  <2>2. ASSUME NEW p \in Promos, NEW w \in Windows, Update(p, w)
        PROVE  IInv'
    <3>1. /\ rules[p] \in SUBSET RuleRow /\ Disjoint(rules[p]) /\ status[p] \in Statuses
          /\ status[p] # "active"
      BY <2>2 DEF Update, IInv
    <3> QED
      BY <2>2, <3>1, WritingKeeps DEF Update
  <2>3. ASSUME NEW p \in Promos, NEW R \in RuleSets, UpdateShape(p, R)
        PROVE  IInv'
    BY <2>3, WritingKeeps DEF UpdateShape, Guards, IInv
  <2>4. ASSUME NEW p \in Promos, NEW st \in Statuses, ChangeStatus(p, st)
        PROVE  IInv'
    <3>1. rules[p] \in SUBSET RuleRow /\ Disjoint(rules[p])
      BY DEF IInv
    <3> QED
      BY <2>4, <3>1, WritingKeeps DEF ChangeStatus, Guards
  <2>5. ASSUME NEW p \in Promos, NEW copy \in Promos, Duplicate(p, copy)
        PROVE  IInv'
    <3>1. rules[p] \in SUBSET RuleRow /\ Disjoint(rules[p]) /\ "draft" \in Statuses
      BY DEF IInv, Statuses
    <3> QED
      BY <2>5, <3>1, WritingKeeps DEF Duplicate
  <2>6. ASSUME NEW p \in Promos, NEW copy \in Promos, NEW old \in Promos,
               DuplicateReplacing(p, copy, old)
        PROVE  IInv'
    <3>1. /\ status' = [status EXCEPT ![copy] = "draft", ![old] = "absent"]
          /\ rules' = [rules EXCEPT ![copy] = rules[p], ![old] = {}]
      BY <2>6 DEF DuplicateReplacing
    <3>2. copy # old
      BY <2>6 DEF DuplicateReplacing
    <3>3. status' \in [Promos -> Statuses] /\ rules' \in [Promos -> SUBSET RuleRow]
      BY <3>1 DEF IInv, Statuses
    <3>4. \A q \in Promos : Disjoint(rules'[q])
      BY <3>1 DEF IInv, Disjoint
    <3>5. \A q \in Promos : status'[q] = "active" =>
            status[q] = "active" /\ rules'[q] = rules[q]
      BY <3>1, <3>2 DEF IInv, Statuses
    <3> QED
      BY <3>3, <3>4, <3>5, LeavingKeeps
  <2>7. ASSUME NEW p \in Promos, Delete(p)
        PROVE  IInv'
    <3>1. {} \in SUBSET RuleRow /\ Disjoint({}) /\ "absent" \in Statuses
      BY DEF Disjoint, Statuses
    <3> QED
      BY <2>7, <3>1, WritingKeeps DEF Delete
  <2>8. ASSUME Expire
        PROVE  IInv'
    <3>1. /\ rules' = rules
          /\ \A q \in Promos : status'[q] \in {status[q], "finished"}
          /\ DOMAIN status' = Promos /\ status' = [q \in Promos |-> status'[q]]
      BY <2>8 DEF Expire
    <3>2. status' \in [Promos -> Statuses]
      BY <3>1 DEF IInv, Statuses
    <3> QED
      BY <3>1, <3>2, LeavingKeeps DEF IInv
  <2>9. ASSUME NEW v \in Variants, NEW a \in Prices, SetPrice(v, a)
        PROVE  IInv'
    BY <2>9 DEF SetPrice, IInv, Disjoint, ProductsOf, VariantsOf
  <2>10. ASSUME NEW v \in Variants, NEW b \in BOOLEAN, SetActive(v, b)
         PROVE  IInv'
    BY <2>10 DEF SetActive, IInv, Disjoint, ProductsOf, VariantsOf
  <2>11. CASE Tick
    BY <2>11 DEF Tick, IInv, Disjoint, ProductsOf, VariantsOf
  <2>12. ASSUME NEW cart \in Carts, Charge(cart)
         PROVE  IInv'
    BY <2>12 DEF Charge, IInv, Disjoint, ProductsOf, VariantsOf
  <2>13. CASE UNCHANGED vars
    BY <2>13 DEF vars, IInv, Disjoint, ProductsOf, VariantsOf
  <2> QED
    BY <2>1, <2>2, <2>3, <2>4, <2>5, <2>6, <2>7, <2>8, <2>9, <2>10, <2>11, <2>12, <2>13 DEF Next
<1> QED
  BY <1>1, <1>2, PTL DEF Spec

\* Whatever the windows, the hours and the requests, no variant is ever under two rules in force.
THEOREM NoDoublePromotion == Spec => []OneRulePerVariant
<1>1. IInv => OneRulePerVariant
  <2> SUFFICES ASSUME IInv, NEW t \in 0..MaxTime, NEW p \in Promos, NEW q \in Promos,
                      Valid(p, t), Valid(q, t), NEW r \in rules[p], NEW s \in rules[q],
                      <<p, r>> # <<q, s>>, NEW v \in r.set, v \in s.set
               PROVE  FALSE
    BY DEF OneRulePerVariant
  <2>1. status[p] = "active" /\ status[q] = "active"
    BY DEF Valid
  <2>2. CASE p = q
    <3>1. r # s
      BY <2>2
    <3> QED
      BY <3>1, <2>2 DEF IInv, Disjoint
  <2>3. CASE p # q
    <3>1. v \in VariantsOf(rules[p]) /\ v \in VariantsOf(rules[q])
      BY DEF VariantsOf
    <3>2. ProductOf[v] \in ProductsOf(rules[p]) \cap ProductsOf(rules[q])
      BY <3>1 DEF ProductsOf
    <3> QED
      BY <3>2, <2>1, <2>3 DEF IInv
  <2> QED
    BY <2>2, <2>3
<1> QED
  BY <1>1, Invariance, PTL

-----------------------------------------------------------------------------
(* The options of groups. *)

\* Fields that an edit did not change stay as they are, and those it did take what it wants.
LEMMA GroupRowWritten ==
  ASSUME NEW here \in O!GroupRow, NEW read \in O!GroupRow, NEW want \in O!GroupRow,
         NEW new, new = [f \in DOMAIN here |-> O!Changed(here[f], read[f], want[f])]
  PROVE  /\ new \in O!GroupRow
         /\ want.active \/ ~read.active => (here.active => new.active)
         /\ new.pricing = IF want.pricing # read.pricing THEN want.pricing ELSE here.pricing
<1>1. DOMAIN here = {"active", "pricing", "mode", "each", "total"}
  BY DEF O!GroupRow
<1>2. /\ new.active = O!Changed(here.active, read.active, want.active)
      /\ new.pricing = O!Changed(here.pricing, read.pricing, want.pricing)
      /\ new.mode = O!Changed(here.mode, read.mode, want.mode)
      /\ new.each = O!Changed(here.each, read.each, want.each)
      /\ new.total = O!Changed(here.total, read.total, want.total)
  BY <1>1
<1>3. new = [active |-> new.active, pricing |-> new.pricing, mode |-> new.mode,
             each |-> new.each, total |-> new.total]
  BY <1>1
<1>4. /\ new.active \in BOOLEAN /\ new.pricing \in {"incluido", "con_recargo"}
      /\ new.mode \in {"conteo", "cantidad"} /\ new.each \in Caps /\ new.total \in Caps
  <2>1. new.active \in {here.active, want.active}
    BY <1>2 DEF O!Changed
  <2>2. here.active \in BOOLEAN /\ want.active \in BOOLEAN
    BY Zenon DEF O!GroupRow
  <2>3. new.active \in BOOLEAN
    BY <2>1, <2>2, Zenon
  <2> QED
    BY <1>2, <2>3 DEF O!Changed, O!GroupRow
<1>5. new \in O!GroupRow
  BY <1>3, <1>4 DEF O!GroupRow
<1>6. ASSUME want.active \/ ~read.active, here.active
      PROVE  new.active
  <2>1. PICK n \in BOOLEAN, e \in BOOLEAN, w \in BOOLEAN :
          n = here.active /\ e = read.active /\ w = want.active
    BY Zenon DEF O!GroupRow
  <2>2. new.active = IF w # e THEN w ELSE n
    BY <1>2, <2>1 DEF O!Changed
  <2> QED
    BY <1>6, <2>1, <2>2
<1> QED
  BY <1>2, <1>5, <1>6 DEF O!Changed

\* The same of an option's row.
LEMMA OptionRowWritten ==
  ASSUME NEW here \in O!OptionRow, NEW read \in O!OptionRow, NEW want \in O!OptionRow,
         NEW new, new = [f \in DOMAIN here |-> O!Changed(here[f], read[f], want[f])]
  PROVE  /\ new \in O!OptionRow
         /\ new.price = IF want.price # read.price THEN want.price ELSE here.price
<1>1. DOMAIN here = {"there", "price", "active", "item", "quantity"}
  BY DEF O!OptionRow
<1>2. /\ new.there = O!Changed(here.there, read.there, want.there)
      /\ new.price = O!Changed(here.price, read.price, want.price)
      /\ new.active = O!Changed(here.active, read.active, want.active)
      /\ new.item = O!Changed(here.item, read.item, want.item)
      /\ new.quantity = O!Changed(here.quantity, read.quantity, want.quantity)
  BY <1>1
<1>3. new = [there |-> new.there, price |-> new.price, active |-> new.active,
             item |-> new.item, quantity |-> new.quantity]
  BY <1>1
<1>4. /\ new.there \in BOOLEAN /\ new.active \in BOOLEAN
  <2>1. new.active \in {here.active, want.active} /\ new.there \in {here.there, want.there}
    BY <1>2 DEF O!Changed
  <2>2. /\ here.active \in BOOLEAN /\ want.active \in BOOLEAN
        /\ here.there \in BOOLEAN /\ want.there \in BOOLEAN
    BY Zenon DEF O!OptionRow
  <2> QED
    BY <2>1, <2>2, Zenon
<1>5. /\ new.price \in OptionPrices /\ new.item \in Items \cup {NoItem}
      /\ new.quantity \in Quantities
  BY <1>2 DEF O!Changed, O!OptionRow
<1>6. new \in O!OptionRow
  BY <1>3, <1>4, <1>5 DEF O!OptionRow
<1> QED
  BY <1>2, <1>6 DEF O!Changed

\* An edit that begins on what it has read, and fits, keeps the invariant.
LEMMA BeginKeeps ==
  ASSUME O!Ruled, O!IInv, NEW r \in Requests, NEW q, O!EditFits(q), q # O!Idle, O!Begin(r, q)
  PROVE  O!IInv'
<1>1. /\ editReq' = [editReq EXCEPT ![r] = q]
      /\ group' = group /\ option' = option /\ links' = links
  BY DEF O!Begin
<1>2. /\ DOMAIN editReq' = Requests /\ editReq'[r] = q
      /\ \A s \in Requests \ {r} : editReq'[s] = editReq[s]
  BY <1>1 DEF O!IInv
<1>3. ASSUME NEW s \in Requests PROVE O!EditFits(editReq[s])'
  <2>1. O!EditFits(editReq'[s])
    BY <1>2 DEF O!IInv
  <2> QED
    BY <1>1, <2>1 DEF O!EditFits, O!InUse, O!PriceFits
<1>4. ASSUME NEW s \in Requests, s # r, editReq[s] # O!Idle
      PROVE  q.kind \notin EditsAlone /\ editReq[s].kind \notin EditsAlone
  <2>1. editReq[s].kind # "idle"
    <3>1. O!EditFits(editReq[s])
      BY DEF O!IInv
    <3> QED
      BY <3>1, <1>4 DEF O!EditFits, O!GroupEdit, O!OptionEdit
  <2>2. editReq[s].kind \in O!Others(r)
    BY <2>1, <1>4 DEF O!Others
  <2> QED
    BY <2>2 DEF O!Begin, O!MayRun
<1>5. ASSUME NEW s \in Requests, NEW t \in Requests, s # t,
             editReq'[s] # O!Idle, editReq'[t] # O!Idle
      PROVE  editReq'[s].kind \notin EditsAlone
  BY <1>2, <1>4, <1>5 DEF O!IInv
<1>6. (O!TypeOK /\ O!OfferedIsActive /\ O!IncludedIsFree)'
  BY <1>1 DEF O!IInv, O!TypeOK, O!OfferedIsActive, O!IncludedIsFree
<1> QED
  BY <1>2, <1>3, <1>5, <1>6 DEF O!IInv

\* The edits in flight after one of them has committed, if no group changed its pricing, or the
\* one that committed was alone, and nobody is closing a group that somebody else links.
LEMMA OthersKeep ==
  ASSUME O!IInv, NEW r \in Requests, editReq' = [editReq EXCEPT ![r] = O!Idle],
         links' = links,
         \/ \A g \in Groups : group'[g].pricing = group[g].pricing
         \/ \A s \in Requests \ {r} : editReq[s] = O!Idle,
         GroupOf \in [Options -> Groups]
  PROVE  /\ DOMAIN editReq' = Requests
         /\ \A s \in Requests : O!EditFits(editReq[s])'
         /\ \A s, t \in Requests : s # t /\ editReq'[s] # O!Idle /\ editReq'[t] # O!Idle =>
              editReq'[s].kind \notin EditsAlone
<1>1. /\ DOMAIN editReq' = Requests /\ editReq'[r] = O!Idle
      /\ \A s \in Requests \ {r} : editReq'[s] = editReq[s]
  BY DEF O!IInv
<1>2. ASSUME NEW s \in Requests PROVE O!EditFits(editReq[s])'
  <2>1. CASE editReq'[s] = O!Idle
    BY <2>1 DEF O!EditFits
  <2>2. CASE editReq'[s] # O!Idle
    <3>1. editReq'[s] = editReq[s] /\ s # r
      BY <1>1, <2>2
    <3>2. \A g \in Groups : group'[g].pricing = group[g].pricing
      BY <3>1, <2>2
    <3>3. O!EditFits(editReq[s])
      BY DEF O!IInv
    <3>4. CASE editReq[s] \in O!GroupEdit
      BY <3>1, <3>3, <3>4, <2>2 DEF O!EditFits, O!InUse, O!GroupEdit, O!OptionEdit
    <3>5. CASE editReq[s] \in O!OptionEdit
      <4>1. editReq[s].option \in Options /\ GroupOf[editReq[s].option] \in Groups
        BY <3>5 DEF O!OptionEdit
      <4>2. /\ \/ O!PriceFits(GroupOf[editReq[s].option], editReq[s].want.price)
               \/ /\ editReq[s].kind = "option"
                  /\ editReq[s].want.price = editReq[s].read.price
        BY <3>1, <2>2, <3>3, <3>5 DEF O!EditFits, O!GroupEdit, O!OptionEdit
      <4> QED
        BY <3>1, <3>2, <3>5, <4>1, <4>2 DEF O!EditFits, O!PriceFits
    <3> QED
      BY <3>1, <3>3, <3>4, <3>5, <2>2 DEF O!EditFits
  <2> QED BY <2>1, <2>2
<1> QED
  BY <1>1, <1>2 DEF O!IInv

\* Closing, repricing or editing a group: the first two are alone, and the third deactivates
\* nothing and leaves the pricing as it is.
LEMMA CommitGroupKeeps ==
  ASSUME O!Ruled, O!IInv, NEW r \in Requests, O!CommitGroup(r)
  PROVE  O!IInv'
<1> DEFINE q == editReq[r]
           g == q.group
           new == [f \in DOMAIN group[g] |-> O!Changed(group[g][f], q.read[f], q.want[f])]
<1>1. /\ q \in O!GroupEdit
      /\ q.kind # "close" => q.want.active \/ ~q.read.active
      /\ q.kind = "close" => ~O!InUse(g)
      /\ q.kind = "edit" => q.want.pricing = q.read.pricing
  <2>1. O!EditFits(q)
    BY DEF O!IInv
  <2>2. q.kind \in {"close", "reprice", "edit"}
    BY DEF O!CommitGroup
  <2> QED
    BY <2>1, <2>2 DEF O!EditFits, O!Idle, O!OptionEdit
<1>2. /\ g \in Groups /\ group[g] \in O!GroupRow /\ q.read \in O!GroupRow
      /\ q.want \in O!GroupRow /\ q # O!Idle
      /\ q.kind \in {"close", "reprice", "edit"}
  BY <1>1 DEF O!GroupEdit, O!Idle, O!IInv, O!TypeOK
<1>3. /\ group' = [group EXCEPT ![g] = new] /\ links' = links
      /\ option' = O!Repriced(q)
      /\ editReq' = [editReq EXCEPT ![r] = O!Idle]
  BY DEF O!CommitGroup, O!Done
<1>4. /\ new \in O!GroupRow
      /\ q.want.active \/ ~q.read.active => (group[g].active => new.active)
      /\ new.pricing = IF q.want.pricing # q.read.pricing THEN q.want.pricing
                       ELSE group[g].pricing
  BY <1>2, GroupRowWritten
<1> HIDE DEF new
<1>5. /\ group' \in [Groups -> O!GroupRow] /\ group'[g] = new
      /\ \A h \in Groups \ {g} : group'[h] = group[h]
  BY <1>2, <1>3, <1>4 DEF O!IInv, O!TypeOK
<1>6. \/ \A h \in Groups : group'[h].pricing = group[h].pricing
      \/ \A s \in Requests \ {r} : editReq[s] = O!Idle
  <2>1. CASE q.kind = "edit"
    BY <2>1, <1>1, <1>4, <1>5
  <2>2. CASE q.kind # "edit"
    BY <2>2, <1>2 DEF O!IInv, O!Ruled
  <2> QED BY <2>1, <2>2
<1>7. /\ DOMAIN editReq' = Requests
      /\ \A s \in Requests : O!EditFits(editReq[s])'
      /\ \A s, t \in Requests : s # t /\ editReq'[s] # O!Idle /\ editReq'[t] # O!Idle =>
           editReq'[s].kind \notin EditsAlone
  BY <1>3, <1>6, OthersKeep DEF O!Ruled
<1>8. O!OfferedIsActive'
  <2> SUFFICES ASSUME NEW v \in Cups, NEW h \in Groups, links'[v][h] # O!NoLink
               PROVE  group'[h].active
    BY DEF O!OfferedIsActive
  <2>1. links[v][h] # O!NoLink /\ group[h].active
    BY <1>3 DEF O!IInv, O!OfferedIsActive
  <2>2. CASE h = g
    <3>1. q.kind # "close"
      BY <1>1, <2>1, <2>2 DEF O!InUse
    <3> QED
      BY <3>1, <1>1, <1>4, <1>5, <2>1, <2>2
  <2>3. CASE h # g
    BY <2>1, <2>3, <1>5
  <2> QED BY <2>2, <2>3
<1>9. /\ option' \in [Options -> O!OptionRow]
      /\ \A o \in Options : group'[GroupOf[o]].pricing = "incluido" => option'[o].price = 0
  <2>0. option \in [Options -> O!OptionRow]
    BY DEF O!IInv, O!TypeOK
  <2>1. CASE q.want.pricing = "incluido" /\ q.read.pricing # "incluido"
    <3>1. option' = O!Freed(q, option)
      BY <2>1, <1>3 DEF O!Repriced
    <3>2. /\ DOMAIN option' = Options /\ option' = [o \in Options |-> option'[o]]
          /\ \A o \in Options : option'[o] = IF GroupOf[o] = g
                                             THEN [option[o] EXCEPT !.price = 0] ELSE option[o]
      BY <3>1 DEF O!Freed
    <3>3. ASSUME NEW o \in Options
          PROVE  /\ [option[o] EXCEPT !.price = 0] \in O!OptionRow
                 /\ [option[o] EXCEPT !.price = 0].price = 0
      <4>1. option[o] \in O!OptionRow /\ 0 \in OptionPrices
        BY <2>0 DEF O!Ruled
      <4> QED
        BY <4>1 DEF O!OptionRow
    <3>4. \A o \in Options : option'[o] \in O!OptionRow
      BY <2>0, <3>2, <3>3
    <3>5. ASSUME NEW o \in Options, group'[GroupOf[o]].pricing = "incluido"
          PROVE  option'[o].price = 0
      <4>1. CASE GroupOf[o] = g
        BY <4>1, <3>2, <3>3
      <4>2. CASE GroupOf[o] # g
        <5>1. GroupOf[o] \in Groups
          BY DEF O!Ruled
        <5> QED
          BY <4>2, <5>1, <3>2, <3>5, <1>5 DEF O!IInv, O!IncludedIsFree
      <4> QED BY <4>1, <4>2
    <3> QED
      BY <3>2, <3>4, <3>5
  <2>2. CASE ~(q.want.pricing = "incluido" /\ q.read.pricing # "incluido")
    <3>1. option' = option
      BY <2>2, <1>3 DEF O!Repriced
    <3>2. ASSUME NEW o \in Options, group'[GroupOf[o]].pricing = "incluido"
          PROVE  option'[o].price = 0
      <4>1. group[GroupOf[o]].pricing = "incluido"
        <5>1. GroupOf[o] \in Groups
          BY DEF O!Ruled
        <5> QED
          BY <5>1, <3>2, <2>2, <1>4, <1>5
      <4> QED
        BY <4>1, <3>1 DEF O!IInv, O!IncludedIsFree
    <3> QED
      BY <3>1, <3>2, <2>0
  <2> QED BY <2>1, <2>2
<1>10. O!TypeOK'
  BY <1>3, <1>5, <1>9 DEF O!IInv, O!TypeOK
<1>11. O!IncludedIsFree'
  BY <1>9 DEF O!IncludedIsFree
<1> QED
  BY <1>7, <1>8, <1>10, <1>11 DEF O!IInv

\* An option is added or edited: what it costs fits the pricing its group still has.
LEMMA CommitOptionKeeps ==
  ASSUME O!Ruled, O!IInv, NEW r \in Requests, O!CommitOption(r)
  PROVE  O!IInv'
<1> DEFINE q == editReq[r]
           o == q.option
           new == IF q.kind = "add" THEN IF option[o].there THEN option[o] ELSE q.want
                  ELSE [f \in DOMAIN option[o] |->
                          O!Changed(option[o][f], q.read[f], q.want[f])]
<1>1. /\ q \in O!OptionEdit
      /\ \/ O!PriceFits(GroupOf[o], q.want.price)
         \/ q.kind = "option" /\ q.want.price = q.read.price
  <2>1. O!EditFits(q)
    BY DEF O!IInv
  <2>2. q.kind \in {"add", "option"}
    BY DEF O!CommitOption
  <2> QED
    BY <2>1, <2>2 DEF O!EditFits, O!Idle, O!GroupEdit
<1>2. /\ o \in Options /\ option[o] \in O!OptionRow /\ q.read \in O!OptionRow
      /\ q.want \in O!OptionRow
  BY <1>1 DEF O!OptionEdit, O!IInv, O!TypeOK
<1>3. /\ option' = [option EXCEPT ![o] = new] /\ group' = group /\ links' = links
      /\ editReq' = [editReq EXCEPT ![r] = O!Idle]
  BY DEF O!CommitOption, O!Done
<1>4. /\ new \in O!OptionRow
      /\ \/ new.price = option[o].price
         \/ new.price = q.want.price /\ O!PriceFits(GroupOf[o], q.want.price)
  <2>1. CASE q.kind = "add"
    BY <2>1, <1>1, <1>2
  <2>2. CASE q.kind # "add"
    <3>1. new = [f \in DOMAIN option[o] |-> O!Changed(option[o][f], q.read[f], q.want[f])]
      BY <2>2
    <3> HIDE DEF new
    <3>2. /\ new \in O!OptionRow
          /\ new.price = IF q.want.price # q.read.price THEN q.want.price ELSE option[o].price
      BY <3>1, <1>2, OptionRowWritten
    <3> QED
      BY <3>2, <1>1
  <2> QED BY <2>1, <2>2
<1> HIDE DEF new
<1>5. /\ option' \in [Options -> O!OptionRow] /\ option'[o] = new
      /\ \A p \in Options \ {o} : option'[p] = option[p]
  BY <1>2, <1>3, <1>4 DEF O!IInv, O!TypeOK
<1>6. /\ DOMAIN editReq' = Requests
      /\ \A s \in Requests : O!EditFits(editReq[s])'
      /\ \A s, t \in Requests : s # t /\ editReq'[s] # O!Idle /\ editReq'[t] # O!Idle =>
           editReq'[s].kind \notin EditsAlone
  BY <1>3, OthersKeep DEF O!Ruled
<1>7. O!IncludedIsFree'
  BY <1>3, <1>4, <1>5 DEF O!IInv, O!IncludedIsFree, O!PriceFits
<1>8. O!TypeOK' /\ O!OfferedIsActive'
  BY <1>3, <1>5 DEF O!IInv, O!TypeOK, O!OfferedIsActive
<1> QED
  BY <1>6, <1>7, <1>8 DEF O!IInv

\* What a save links is active, and nobody is closing it.
LEMMA SaveLinksKeeps ==
  ASSUME O!Ruled, O!IInv, NEW v \in Cups, NEW L \in LinkSets, O!SaveLinks(v, L)
  PROVE  O!IInv'
<1>1. /\ links' = [links EXCEPT ![v] = L] /\ group' = group /\ option' = option
      /\ editReq' = editReq
      /\ \A g \in Groups : L[g] # O!NoLink => group[g].active
      /\ \A s \in Requests : editReq[s].kind \notin EditsAlone
  BY DEF O!SaveLinks
<1>2. /\ links' \in [Cups -> LinkSets] /\ links'[v] = L
      /\ \A w \in Cups \ {v} : links'[w] = links[w]
  BY <1>1 DEF O!IInv, O!TypeOK
<1>3. O!OfferedIsActive'
  BY <1>1, <1>2 DEF O!IInv, O!OfferedIsActive
<1>4. ASSUME NEW s \in Requests PROVE O!EditFits(editReq[s])'
  <2>1. editReq'[s].kind # "close"
    BY <1>1 DEF O!Ruled
  <2>2. O!EditFits(editReq[s])
    BY DEF O!IInv
  <2> QED
    BY <1>1, <2>1, <2>2 DEF O!EditFits, O!PriceFits
<1> QED
  BY <1>1, <1>2, <1>3, <1>4 DEF O!IInv, O!TypeOK, O!IncludedIsFree

\* No group starts linked, and no option exists.
LEMMA OptionsStart == ASSUME O!Ruled PROVE O!Init => O!IInv
<1> SUFFICES ASSUME O!Init PROVE O!IInv
  OBVIOUS
<1>1. /\ group \in [Groups -> O!GroupRow]
      /\ editReq = [r \in Requests |-> O!Idle]
      /\ links = [v \in Cups |-> [g \in Groups |-> O!NoLink]]
      /\ option = [o \in Options |-> O!NoOption]
  BY DEF O!Init
<1>2. O!NoOption \in O!OptionRow /\ O!NoOption.price = 0
  BY DEF O!NoOption, O!OptionRow, O!Ruled
<1>3. O!TypeOK
  BY <1>1, <1>2 DEF O!TypeOK, O!Ruled
<1>4. O!OfferedIsActive /\ O!IncludedIsFree
  BY <1>1, <1>2 DEF O!OfferedIsActive, O!IncludedIsFree
<1> QED
  BY <1>1, <1>3, <1>4 DEF O!IInv, O!EditFits

\* What each edit begins with fits what it has just read.
LEMMA EditGroupKeeps ==
  ASSUME O!Ruled, O!IInv, NEW r \in Requests, NEW g \in Groups, NEW want \in O!GroupRow,
         NEW deletes \in BOOLEAN, O!EditGroup(r, g, want, deletes)
  PROVE  O!IInv'
<1> DEFINE kind == IF ~want.active /\ group[g].active THEN "close"
                   ELSE IF want.pricing # group[g].pricing THEN "reprice" ELSE "edit"
           q == [kind |-> kind, group |-> g, read |-> group[g], want |-> want]
<1>1. O!Begin(r, q)
  BY DEF O!EditGroup
<1>2. group[g] \in O!GroupRow
  BY DEF O!IInv, O!TypeOK
<1>3. ~want.active /\ group[g].active => ~O!InUse(g)
  BY DEF O!EditGroup, O!MayClose
<1>4. q \in O!GroupEdit
  BY <1>2 DEF O!GroupEdit
<1>5. /\ kind # "close" => want.active \/ ~group[g].active
      /\ kind = "close" => ~want.active /\ group[g].active
      /\ kind = "edit" => want.pricing = group[g].pricing
  OBVIOUS
<1>6. /\ q.kind = kind /\ q.group = g /\ q.read = group[g] /\ q.want = want
      /\ q # O!Idle
  BY DEF O!Idle
<1> HIDE DEF q, kind
<1>7. O!EditFits(q)
  <2>1. q.kind # "close" => q.want.active \/ ~q.read.active
    BY <1>5, <1>6
  <2>2. q.kind = "close" => ~O!InUse(q.group)
    BY <1>3, <1>5, <1>6
  <2>3. q.kind = "edit" => q.want.pricing = q.read.pricing
    BY <1>5, <1>6
  <2> QED
    BY <1>4, <2>1, <2>2, <2>3 DEF O!EditFits
<1> QED
  BY <1>1, <1>6, <1>7, BeginKeeps

\* The same of an option that is added or edited.
LEMMA EditOptionKeeps ==
  ASSUME O!Ruled, O!IInv, NEW r \in Requests, NEW o \in Options, NEW want \in O!OptionRow,
         O!AddOption(r, o, want) \/ O!UpdateOption(r, o, want)
  PROVE  O!IInv'
<1>1. O!NoOption \in O!OptionRow /\ option[o] \in O!OptionRow
  BY DEF O!NoOption, O!OptionRow, O!Ruled, O!IInv, O!TypeOK
<1>2. CASE O!AddOption(r, o, want)
  <2> DEFINE q == [kind |-> "add", option |-> o, read |-> O!NoOption, want |-> want]
  <2>1. O!Begin(r, q) /\ O!PriceFits(GroupOf[o], want.price)
    BY <1>2 DEF O!AddOption
  <2>2. q \in O!OptionEdit /\ q # O!Idle
    BY <1>1 DEF O!OptionEdit, O!Idle
  <2>3. O!EditFits(q)
    BY <2>1, <2>2 DEF O!EditFits
  <2> HIDE DEF q
  <2> QED
    BY <2>1, <2>2, <2>3, BeginKeeps
<1>3. CASE O!UpdateOption(r, o, want)
  <2> DEFINE q == [kind |-> "option", option |-> o, read |-> option[o], want |-> want]
  <2>1. /\ O!Begin(r, q)
        /\ O!PriceFits(GroupOf[o], want.price) \/ want.price = option[o].price
    BY <1>3 DEF O!UpdateOption
  <2>2. q \in O!OptionEdit /\ q # O!Idle
    BY <1>1 DEF O!OptionEdit, O!Idle
  <2>3. O!EditFits(q)
    BY <2>1, <2>2 DEF O!EditFits
  <2> HIDE DEF q
  <2> QED
    BY <2>1, <2>2, <2>3, BeginKeeps
<1> QED BY <1>2, <1>3

\* The invariant is established by Init and kept by every edit, save and selection.
THEOREM OptionsInvariance == ASSUME O!Ruled PROVE O!Spec => []O!IInv
<1>1. O!Init => O!IInv
  BY OptionsStart
<1>2. O!IInv /\ [O!Next]_(O!vars) => O!IInv'
  <2> SUFFICES ASSUME O!IInv, [O!Next]_(O!vars) PROVE O!IInv'
    OBVIOUS
  <2>1. ASSUME NEW r \in Requests, NEW g \in Groups, NEW want \in O!GroupRow,
               NEW deletes \in BOOLEAN, O!EditGroup(r, g, want, deletes)
        PROVE  O!IInv'
    BY <2>1, EditGroupKeeps
  <2>2. ASSUME NEW r \in Requests, NEW o \in Options, NEW want \in O!OptionRow,
               O!AddOption(r, o, want) \/ O!UpdateOption(r, o, want)
        PROVE  O!IInv'
    BY <2>2, EditOptionKeeps
  <2>3. ASSUME NEW r \in Requests, O!CommitGroup(r)
        PROVE  O!IInv'
    BY <2>3, CommitGroupKeeps
  <2>4. ASSUME NEW r \in Requests, O!CommitOption(r)
        PROVE  O!IInv'
    BY <2>4, CommitOptionKeeps
  <2>5. ASSUME NEW v \in Cups, NEW L \in LinkSets, O!SaveLinks(v, L)
        PROVE  O!IInv'
    BY <2>5, SaveLinksKeeps
  <2>6. ASSUME NEW v \in Cups, NEW sel \in [Options -> Units], NEW n \in 1..2,
               O!Choose(v, sel, n)
        PROVE  O!IInv'
    <3>1. UNCHANGED <<group, option, links, editReq>>
      BY <2>6 DEF O!Choose
    <3> QED
      BY <3>1 DEF O!IInv, O!TypeOK, O!EditFits, O!InUse, O!PriceFits, O!OfferedIsActive,
                  O!IncludedIsFree
  <2>7. CASE UNCHANGED O!vars
    BY <2>7 DEF O!vars, O!IInv, O!TypeOK, O!EditFits, O!InUse, O!PriceFits, O!OfferedIsActive,
                O!IncludedIsFree
  <2> QED
    BY <2>1, <2>2, <2>3, <2>4, <2>5, <2>6, <2>7 DEF O!Next
<1> QED
  BY <1>1, <1>2, PTL DEF O!Spec

\* Whatever the groups, the options and the edits that overlap, no variant offers a group that
\* was retired, and no option of an included group costs anything.
THEOREM OffersHold == ASSUME O!Ruled PROVE O!Spec => []OfferedAsRuled
<1>1. O!IInv => OfferedAsRuled
  BY DEF O!IInv, OfferedAsRuled
<1> QED
  BY <1>1, OptionsInvariance, PTL
=============================================================================
