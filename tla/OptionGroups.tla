----------------------------- MODULE OptionGroups -----------------------------
(***************************************************************************)
(* The options a size offers and what a diner may choose of them: groups,  *)
(* their options and their links to a variant (catalog/router.py,          *)
(* catalog/service.py), and the validation of a selection                  *)
(* (catalog_engine/pricing.py), against what it will take out of the       *)
(* inventory (Consumption).                                                *)
(*                                                                         *)
(* An edit reads its rows, decides, and commits later what differs from    *)
(* what it read; it locks nothing.  Edits of a kind in Alone overlap no    *)
(* other.  Names, and the min and max of a group that has no link, decide  *)
(* nothing and are left out.                                               *)
(***************************************************************************)
EXTENDS Integers, FiniteSets, FiniteSetsExt

CONSTANTS
  Items, NoItem,
  Groups, Options, GroupOf,   \* GroupOf[o]: the group of an option
  Variants, LinkSets,         \* a variant's links: [Groups -> LinkRow or NoLink]
  Prices, Quantities,         \* extra_price and item_quantity
  Caps,                       \* max_quantity_per_option and max_total_quantity; 0: none
  Units,                      \* units a diner asks of an option
  Strict,                     \* STRICT_OPTION_SELECTION
  Requests, Alone

VARIABLES
  group,      \* rows of option_groups
  option,     \* rows of options
  links,      \* variant_option_groups
  req,        \* the edits in flight, with what they read
  accepted    \* the selection the last step accepted

vars == <<group, option, links, req, accepted>>

GroupRow  == [active : BOOLEAN, pricing : {"incluido", "con_recargo"},
              mode : {"conteo", "cantidad"}, each : Caps, total : Caps]
OptionRow == [there : BOOLEAN, price : Prices, active : BOOLEAN, item : Items \cup {NoItem},
              quantity : Quantities]
NoLink    == [min |-> -1, max |-> -1, per |-> 0]
LinkRow   == [min : Nat, max : Nat, per : Nat]

NoOption == [there |-> FALSE, price |-> 0, active |-> FALSE, item |-> NoItem, quantity |-> 0]
Idle     == [kind |-> "idle"]
Nothing  == [variant |-> CHOOSE v \in Variants : TRUE, chosen |-> [o \in Options |-> 0], n |-> 0]

TypeOK ==
  /\ group \in [Groups -> GroupRow]
  /\ option \in [Options -> OptionRow]
  /\ links \in [Variants -> LinkSets]

Init ==
  /\ group \in [Groups -> {r \in GroupRow : r.active}]
  /\ option = [o \in Options |-> NoOption]
  /\ links = [v \in Variants |-> [g \in Groups |-> NoLink]]
  /\ req = [r \in Requests |-> Idle]
  /\ accepted = Nothing

-----------------------------------------------------------------------------
(* Edits. *)

Others(r) == {req[q].kind : q \in Requests \ {r}} \ {"idle"}
MayRun(r, kind) ==
  /\ req[r] = Idle
  /\ (kind \in Alone => Others(r) = {}) /\ Others(r) \cap Alone = {}

Begin(r, q) ==
  /\ MayRun(r, q.kind)
  /\ req' = [req EXCEPT ![r] = q]
  /\ accepted' = Nothing
  /\ UNCHANGED <<group, option, links>>

\* _variantes_que_lo_usan: whether the variant is on sale or not.
InUse(g) == \E v \in Variants : links[v][g] # NoLink
MayClose_Unchecked(g) == TRUE
MayClose(g) == ~InUse(g)

\* update_option_group, and delete_option_group, which checks even what is closed already.
EditGroup(r, g, want, deletes) ==
  LET kind == IF ~want.active /\ group[g].active THEN "close"
              ELSE IF want.pricing # group[g].pricing THEN "reprice" ELSE "edit"
  IN  /\ ~want.active /\ (group[g].active \/ deletes) => MayClose(g)
      /\ deletes => want = [group[g] EXCEPT !.active = FALSE]
      /\ Begin(r, [kind |-> kind, group |-> g, read |-> group[g], want |-> want])

Changed(now, read, want) == IF want # read THEN want ELSE now

\* From "con_recargo" to "incluido" every option of the group goes to 0.
Freed_Active(q, opts) ==
  [o \in Options |-> IF GroupOf[o] = q.group /\ opts[o].active
                     THEN [opts[o] EXCEPT !.price = 0] ELSE opts[o]]
Freed(q, opts) ==
  [o \in Options |-> IF GroupOf[o] = q.group THEN [opts[o] EXCEPT !.price = 0] ELSE opts[o]]
Repriced(q) ==
  IF q.want.pricing = "incluido" /\ q.read.pricing # "incluido" THEN Freed(q, option) ELSE option

Done(r) == req' = [req EXCEPT ![r] = Idle] /\ accepted' = Nothing

CommitGroup(r) ==
  LET q == req[r]
  IN  /\ q.kind \in {"close", "reprice", "edit"}
      /\ group' = [group EXCEPT ![q.group] =
                     [f \in DOMAIN @ |-> Changed(@[f], q.read[f], q.want[f])]]
      /\ option' = Repriced(q)
      /\ Done(r) /\ UNCHANGED links

\* add_option and update_option: an option of an "incluido" group costs nothing.
PriceFits(g, x) == group[g].pricing = "incluido" => x = 0

AddOption(r, o, want) ==
  /\ ~option[o].there /\ want.there /\ want.active
  /\ PriceFits(GroupOf[o], want.price)
  /\ Begin(r, [kind |-> "add", option |-> o, read |-> NoOption, want |-> want])

\* Unlinking the item sets the quantity to 0, and without one it is not set; delete_option
\* only clears `active`.
UpdateOption(r, o, want) ==
  /\ option[o].there /\ want.there
  /\ PriceFits(GroupOf[o], want.price) \/ want.price = option[o].price
  /\ want.item = NoItem => want.quantity \in {0, option[o].quantity}
  /\ want.item = NoItem /\ option[o].item # NoItem => want.quantity = 0
  /\ Begin(r, [kind |-> "option", option |-> o, read |-> option[o], want |-> want])

\* Names of a group's options are unique: the second of two insertions is refused.
CommitOption(r) ==
  LET q == req[r]
  IN  /\ q.kind \in {"add", "option"}
      /\ option' = [option EXCEPT ![q.option] =
                      IF q.kind = "add" THEN IF @.there THEN @ ELSE q.want
                      ELSE [f \in DOMAIN @ |-> Changed(@[f], q.read[f], q.want[f])]]
      /\ Done(r) /\ UNCHANGED <<group, links>>

\* _replace_option_groups, within the save of a product: what is linked must be active.
SaveLinks(v, L) ==
  /\ Alone \cap {req[r].kind : r \in Requests} = {}
  /\ \A g \in Groups : L[g] # NoLink => group[g].active
  /\ links' = [links EXCEPT ![v] = L]
  /\ accepted' = Nothing
  /\ UNCHANGED <<group, option, req>>

-----------------------------------------------------------------------------
(* A selection: validate_option_selection. *)

Offered(v) == {g \in Groups : links[v][g] # NoLink}

\* grupos_que_descuentan: by the size's quantity or by an option's own.
Discounting(v) ==
  {g \in Offered(v) :
     \/ links[v][g].per > 0
     \/ \E o \in Options : /\ GroupOf[o] = g /\ option[o].active
                           /\ option[o].item # NoItem /\ option[o].quantity > 0}

\* _exige_maximo: a mandatory group that moves stock shares out a fixed amount.
MustTakeAll_Min(v, g) == FALSE
MustTakeAll(v, g) == links[v][g].min > 0 /\ g \in Discounting(v)

OfGroup(sel, g) == {o \in Options : GroupOf[o] = g /\ sel[o] > 0}
Counted(g) == group[g].mode = "conteo"

CountFits(v, sel, g) ==
  LET n == Cardinality(OfGroup(sel, g))
      l == links[v][g]
  IN  IF g \notin Offered(v) THEN n = 0
      ELSE IF MustTakeAll(v, g) THEN n = l.max
      ELSE l.min <= n /\ n <= l.max

\* Always enforced: one unit of an option of "conteo", the caps of "cantidad".
Enforced(sel, g) ==
  IF Counted(g) THEN \A o \in OfGroup(sel, g) : sel[o] = 1
  ELSE /\ group[g].each # 0 => \A o \in OfGroup(sel, g) : sel[o] <= group[g].each
       /\ group[g].total # 0 => MapThenSumSet(LAMBDA o : sel[o], OfGroup(sel, g)) <= group[g].total

\* The rest is enforced of the groups that move stock, and of all of them if Strict.
Accepts(v, sel) ==
  /\ \A o \in Options : sel[o] > 0 => option[o].there /\ option[o].active
  /\ \A g \in Groups :
       /\ Enforced(sel, g)
       /\ Counted(g) /\ (Strict \/ g \in Discounting(v)) => CountFits(v, sel, g)

Choose(v, sel, n) ==
  /\ Accepts(v, sel)
  /\ accepted' = [variant |-> v, chosen |-> sel, n |-> n]
  /\ UNCHANGED <<group, option, links, req>>

Next ==
  \/ \E r \in Requests :
       \/ \E g \in Groups, want \in GroupRow, deletes \in BOOLEAN : EditGroup(r, g, want, deletes)
       \/ \E o \in Options, want \in OptionRow : AddOption(r, o, want) \/ UpdateOption(r, o, want)
       \/ CommitGroup(r) \/ CommitOption(r)
  \/ \E v \in Variants : \/ \E L \in LinkSets : SaveLinks(v, L)
                         \/ \E sel \in [Options -> Units], n \in 1..2 : Choose(v, sel, n)

Spec == Init /\ [][Next]_vars

-----------------------------------------------------------------------------
(* Properties. *)

\* No variant offers a group that was retired, provided nobody links it while it is being
\* closed (_variantes_que_lo_usan).
OfferedIsActive == \A v \in Variants, g \in Groups : links[v][g] # NoLink => group[g].active

\* The options of an included group cost nothing, however it became one, provided no option is
\* edited meanwhile.
IncludedIsFree ==
  \A o \in Options : group[GroupOf[o]].pricing = "incluido" => option[o].price = 0

\* What they rest on.  Closing a group and repricing it overlap no other edit (Ruled), so a
\* group that is being closed is offered by nobody, and what an edit in flight wants of an
\* option still fits its group's pricing.
Ruled == /\ {"close", "reprice"} \subseteq Alone
         /\ GroupOf \in [Options -> Groups]
         /\ 0 \in Prices /\ 0 \in Quantities
         /\ [g \in Groups |-> NoLink] \in LinkSets

GroupEdit == [kind : {"close", "reprice", "edit"}, group : Groups, read : GroupRow, want : GroupRow]
OptionEdit == [kind : {"add", "option"}, option : Options, read : OptionRow, want : OptionRow]

EditFits(q) ==
  \/ q = Idle
  \/ /\ q \in GroupEdit
     /\ q.kind # "close" => q.want.active \/ ~q.read.active
     /\ q.kind = "close" => ~InUse(q.group)
     /\ q.kind = "edit" => q.want.pricing = q.read.pricing
  \/ /\ q \in OptionEdit
     /\ \/ PriceFits(GroupOf[q.option], q.want.price)
        \/ q.kind = "option" /\ q.want.price = q.read.price

IInv ==
  /\ TypeOK
  /\ DOMAIN req = Requests
  /\ \A r \in Requests : EditFits(req[r])
  /\ \A r, s \in Requests : r # s /\ req[r] # Idle /\ req[s] # Idle => req[r].kind \notin Alone
  /\ OfferedIsActive /\ IncludedIsFree

\* What a size serves of a mandatory group is what is taken out of the inventory, whichever
\* flavours the diner chooses: three scoops are never served and one deducted.
Row(o) == [group |-> GroupOf[o], item |-> option[o].item, quantity |-> option[o].quantity,
           active |-> option[o].active]
C == INSTANCE Consumption WITH Option <- [o \in Options |-> Row(o)]

ServedIsPoured ==
  LET v    == accepted.variant
      conf == [tracks |-> TRUE, recipe |-> [i \in Items |-> 0], offered |-> Offered(v),
               perOption |-> [g \in Groups |-> links[v][g].per]]
      line == [n |-> accepted.n, chosen |-> accepted.chosen, perLine |-> {}]
  IN  \A g \in Offered(v) :
        /\ accepted # Nothing /\ Counted(g) /\ links[v][g].min > 0 /\ links[v][g].per > 0
        /\ \A o \in Options : accepted.chosen[o] > 0 => GroupOf[o] = g /\ option[o].item # NoItem
        => MapThenSumSet(LAMBDA i : C!Required(conf, line)[i], Items)
             = links[v][g].max * links[v][g].per * accepted.n

\* What the source says of a selection: the groups that move stock are always validated.
StockIsValidated ==
  \A o \in Options : accepted.chosen[o] > 0 /\ option[o].item # NoItem /\ option[o].quantity > 0 =>
    GroupOf[o] \in Offered(accepted.variant)
=============================================================================
