-------------------------------- MODULE Catalog --------------------------------
(***************************************************************************)
(* The sizes a product is sold in: its variants, one per presentation of   *)
(* the tenant's catalog, in the order the administrator gave them          *)
(* (products/service.py, catalog/service.py and router.py, categories and  *)
(* presentations/router.py).                                               *)
(*                                                                         *)
(* No handler locks a row before it writes it: a request reads, decides,   *)
(* and commits later, and in between only the unique constraints of the    *)
(* table stand.  The ORM writes the columns that differ from what it read, *)
(* and keeps what it read even if it queries the row again.                *)
(*                                                                         *)
(* Left out: prices, sku and recipes, which no property tells apart; names *)
(* but for that of the default presentation; forms that list a variant     *)
(* twice.  The tables are those of one product.                            *)
(***************************************************************************)
EXTENDS Integers, Sequences, FiniteSets, SequencesExt, FiniteSetsExt

CONSTANTS
  Sizes,      \* rows of presentations, numbered in the order of their names
  Requests,   \* requests in flight
  Forms,      \* lists of entries of a save
  MaxRows     \* variants of the product

None == 0

VARIABLES
  known,      \* the presentations that exist
  onOffer,    \* the active ones
  unica,      \* the one called "Presentación única", or None
  habitual,   \* those of the product's category
  variants,   \* the product's variants, as they were inserted; <<>>: no product
  req,        \* what each request has read and decided
  saved       \* the form the last step saved, when nothing was committed since it began

vars == <<known, onOffer, unica, habitual, variants, req, saved>>

VariantRow == [size : Sizes, order : Nat, active : BOOLEAN]
EntryRow   == [id : Nat, size : Sizes \cup {None}, active : BOOLEAN]   \* None: a new one; the default
Kinds      == {"idle", "create", "update", "save"}

Idle == [kind |-> "idle", row |-> [size |-> None, order |-> 0, active |-> FALSE], id |-> None,
         making |-> FALSE, seen |-> <<>>, form |-> <<>>, alone |-> FALSE]
NotSaved == <<[id |-> None, size |-> None, active |-> FALSE]>>

TypeOK ==
  /\ known \subseteq Sizes /\ onOffer \subseteq known /\ habitual \subseteq known
  /\ unica \in known \cup {None}
  /\ variants \in Seq(VariantRow)
  /\ \A r \in Requests : req[r].kind \in Kinds

Init ==
  /\ known \in SUBSET Sizes /\ onOffer = known
  /\ unica \in known \cup {None}
  /\ habitual = {}
  /\ variants = <<>>
  /\ req = [r \in Requests |-> Idle]
  /\ saved = NotSaved

-----------------------------------------------------------------------------
(* The table. *)

\* Its unique constraints: (product_id, display_order) and (product_id, presentation_id).
Fits_AnyOrder(rows) ==
  \A i, j \in DOMAIN rows : i # j => rows[i].size # rows[j].size
Fits(rows) ==
  \A i, j \in DOMAIN rows :
    i # j => rows[i].order # rows[j].order /\ rows[i].size # rows[j].size

\* _next_display_order: of active and inactive rows alike.
NextOrder(rows) == 1 + Max({0} \cup {rows[i].order : i \in DOMAIN rows})

\* variante_duplicada: another row, active or not, already has the size.
Duplicated(rows, s, id) == \E i \in DOMAIN rows : i # id /\ rows[i].size = s

\* default_presentation: the one of that name, made on the spot if there is none.  A second
\* request that would make it waits for the first on the unique name.
Making == \E r \in Requests : req[r].making
Fresh  == Sizes \ known
DefaultIs(s, making) ==
  IF unica # None THEN s = unica /\ ~making
  ELSE s \in Fresh /\ making /\ ~Making

\* _resolve_presentation: the default, or an active one, or the one the variant has.
Resolves(rows, asked, id, s, making) ==
  /\ IF asked = None THEN DefaultIs(s, making)
     ELSE /\ ~making /\ s = asked
          /\ s \in onOffer \/ (id # None /\ rows[id].size = s)
  /\ ~Duplicated(rows, s, id)

-----------------------------------------------------------------------------
(* A product and its first variants: create_product. *)

\* _save_variant_tree and _assign_display_orders over an empty table.
Tree(form) == [i \in DOMAIN form |-> [size |-> form[i].size, order |-> i, active |-> form[i].active]]

\* _apply_inherited_or_default_variant: the category's active presentations by name, or else
\* the default one.
Inherited == [i \in 1..Cardinality(habitual \cap onOffer) |->
               [id |-> None, active |-> TRUE,
                size |-> SetToSortSeq(habitual \cap onOffer, <)[i]]]

NewProduct(form, s, making) ==
  LET entries == [i \in DOMAIN form |->
                    IF form[i].size = None THEN [form[i] EXCEPT !.size = s] ELSE form[i]]
  IN  /\ variants = <<>> /\ form # <<>> /\ Len(form) <= MaxRows
      /\ IF \E i \in DOMAIN form : form[i].size = None THEN DefaultIs(s, making)
         ELSE ~making /\ s = None
      /\ \A i \in DOMAIN form : form[i].id = None /\ form[i].size \in onOffer \cup {None}
      /\ Fits(Tree(entries))
      /\ variants' = Tree(entries)
      /\ known' = IF making THEN known \cup {s} ELSE known
      /\ onOffer' = IF making THEN onOffer \cup {s} ELSE onOffer
      /\ unica' = IF making THEN s ELSE unica
      /\ saved' = NotSaved /\ UNCHANGED <<habitual, req>>

CreateProduct(form, s, making) ==
  IF form # <<>> THEN NewProduct(form, s, making)
  ELSE IF Inherited # <<>> THEN NewProduct(Inherited, s, making)
  ELSE NewProduct(<<[id |-> None, size |-> None, active |-> TRUE]>>, s, making)

-----------------------------------------------------------------------------
(* Requests: what they read. *)

Begin(r, q) ==
  /\ variants # <<>> /\ req[r] = Idle
  /\ req' = [req EXCEPT ![r] = [q EXCEPT !.alone = TRUE]]
  /\ saved' = NotSaved /\ UNCHANGED <<known, onOffer, unica, habitual, variants>>

\* create_variant.
CreateVariant(r, asked, s, making) ==
  /\ Len(variants) < MaxRows
  /\ Resolves(variants, asked, None, s, making)
  /\ Begin(r, [Idle EXCEPT !.kind = "create", !.making = making,
                 !.row = [size |-> s, order |-> NextOrder(variants), active |-> TRUE]])

\* update_variant, and delete_variant, which is one that only clears `active`.
UpdateVariant(r, id, s, active) ==
  /\ id \in DOMAIN variants
  /\ s # variants[id].size => Resolves(variants, s, id, s, FALSE)
  /\ Begin(r, [Idle EXCEPT !.kind = "update", !.id = id, !.seen = <<variants[id]>>,
                 !.row = [variants[id] EXCEPT !.size = s, !.active = active]])

\* update_product with `variants`: _reconcile_variants reads the rows first.
Save(r, form) ==
  /\ \A i \in DOMAIN form : form[i].id \in DOMAIN variants \cup {None}
  /\ Begin(r, [Idle EXCEPT !.kind = "save", !.seen = variants, !.form = form])

-----------------------------------------------------------------------------
(* Requests: what they commit. *)

\* A request that ends leaves every other one that is under way overlapped.
Ended(r) == [q \in Requests |-> IF q = r THEN Idle ELSE [req[q] EXCEPT !.alone = FALSE]]

Put(r, rows, sizes) ==
  /\ Fits(rows)
  /\ variants' = rows
  /\ req' = Ended(r)
  /\ known' = known \cup sizes /\ onOffer' = onOffer \cup sizes
  /\ unica' = IF sizes # {} THEN CHOOSE s \in sizes : TRUE ELSE unica
  /\ UNCHANGED habitual

CommitCreate(r) ==
  /\ req[r].kind = "create"
  /\ Put(r, Append(variants, req[r].row), IF req[r].making THEN {req[r].row.size} ELSE {})
  /\ saved' = NotSaved

\* The columns that differ from what was read.
Merge(row, read, want) ==
  [row EXCEPT !.size   = IF want.size # read.size THEN want.size ELSE @,
              !.active = IF want.active # read.active THEN want.active ELSE @]

CommitUpdate(r) ==
  LET q == req[r]
  IN  /\ q.kind = "update"
      /\ Put(r, [variants EXCEPT ![q.id] = Merge(@, q.seen[1], q.row)], {})
      /\ saved' = NotSaved

\* _reconcile_variants: the active rows the form leaves out are switched off, as they were read.
Mentioned(form) == {form[i].id : i \in DOMAIN form} \ {None}
Unlisted_Kept(rows, q) == rows
Unlisted(rows, q) ==
  [i \in DOMAIN rows |->
     IF i \in DOMAIN q.seen /\ q.seen[i].active /\ i \notin Mentioned(q.form)
     THEN [rows[i] EXCEPT !.active = FALSE] ELSE rows[i]]

\* _save_variant_entry, one entry after another.  acc.rows: the table as the transaction sees
\* it; acc.done: the rows resolved so far; acc.ok: no entry was refused.
SaveEntry(q, s, acc, e) ==
  LET size == IF e.size = None THEN s ELSE e.size
      id   == IF e.id = None THEN Len(acc.rows) + 1 ELSE e.id
      row  == [size |-> size, order |-> NextOrder(acc.rows), active |-> e.active]
  IN  [rows |-> IF e.id = None THEN Append(acc.rows, row)
                ELSE [acc.rows EXCEPT ![e.id] = Merge(@, q.seen[e.id], row)],
       done |-> Append(acc.done, id),
       ok   |-> /\ acc.ok /\ ~Duplicated(acc.rows, size, e.id)
                /\ \/ e.size = None \/ size \in onOffer
                   \/ e.id # None /\ q.seen[e.id].size = size]

\* _assign_display_orders: the resolved rows first, the others after them in their old order.
InOrder(q, rows, done) ==
  LET was(i) == IF i \in DOMAIN q.seen THEN q.seen[i].order ELSE rows[i].order
      others == SetToSortSeq(DOMAIN rows \ ToSet(done), LAMBDA i, j : was(i) < was(j))
      all    == done \o others
  IN  [i \in DOMAIN rows |-> [rows[i] EXCEPT !.order = CHOOSE k \in DOMAIN all : all[k] = i]]

Asks(form) == \E i \in DOMAIN form : form[i].size = None

CommitSave(r, s, making) ==
  LET q   == req[r]
      acc == FoldLeft(LAMBDA a, e : SaveEntry(q, s, a, e),
                      [rows |-> Unlisted(variants, q), done |-> <<>>, ok |-> TRUE], q.form)
  IN  /\ q.kind = "save"
      /\ IF Asks(q.form) THEN DefaultIs(s, making) ELSE ~making /\ s = None
      /\ acc.ok /\ Len(acc.rows) <= MaxRows
      /\ Put(r, InOrder(q, acc.rows, acc.done), IF making THEN {s} ELSE {})
      /\ saved' = IF q.alone THEN q.form ELSE NotSaved

\* A refusal, a violated constraint or a lost connection: everything is rolled back.
Fail(r) ==
  /\ req[r] # Idle
  /\ req' = [req EXCEPT ![r] = Idle]
  /\ saved' = NotSaved /\ UNCHANGED <<known, onOffer, unica, habitual, variants>>

-----------------------------------------------------------------------------
(* Presentations and categories. *)

\* create_presentation and update_presentation: a name is unique.
AddSize(s, named) ==
  /\ s \in Fresh /\ (named => unica = None /\ ~Making)
  /\ known' = known \cup {s} /\ onOffer' = onOffer \cup {s}
  /\ unica' = IF named THEN s ELSE unica
  /\ saved' = NotSaved /\ UNCHANGED <<habitual, variants, req>>

RenameSize(s) ==
  /\ s \in known
  /\ unica' = IF unica = s THEN None ELSE s
  /\ unica' = s => unica = None /\ ~Making
  /\ saved' = NotSaved /\ UNCHANGED <<known, onOffer, habitual, variants, req>>

SwitchSize(s) ==
  /\ s \in known
  /\ onOffer' = IF s \in onOffer THEN onOffer \ {s} ELSE onOffer \cup {s}
  /\ saved' = NotSaved /\ UNCHANGED <<known, unica, habitual, variants, req>>

\* _replace_category_presentations: they must exist, active or not.
SetHabitual(S) ==
  /\ S \subseteq known /\ habitual' = S
  /\ saved' = NotSaved /\ UNCHANGED <<known, onOffer, unica, variants, req>>

Next ==
  \/ \E s \in Sizes \cup {None}, making \in BOOLEAN :
       \/ \E form \in Forms \cup {<<>>} : CreateProduct(form, s, making)
       \/ \E r \in Requests : \/ \E asked \in Sizes \cup {None} : CreateVariant(r, asked, s, making)
                              \/ CommitSave(r, s, making)
  \/ \E r \in Requests :
       \/ \E id \in 1..MaxRows, s \in Sizes, b \in BOOLEAN : UpdateVariant(r, id, s, b)
       \/ \E form \in Forms : Save(r, form)
       \/ CommitCreate(r) \/ CommitUpdate(r) \/ Fail(r)
  \/ \E s \in Sizes : (\E b \in BOOLEAN : AddSize(s, b)) \/ RenameSize(s) \/ SwitchSize(s)
  \/ \E S \in SUBSET Sizes : SetHabitual(S)

Spec == Init /\ [][Next]_vars

-----------------------------------------------------------------------------
(* Properties. *)

\* The positions of the variants are 1..N, on sale or not, whatever requests overlap: each
\* takes the position after the last it read, and one of two that read the same is refused.
OrderIsDense == {variants[i].order : i \in DOMAIN variants} = 1..Len(variants)

\* A save that nobody overlapped leaves on sale what its form says, in the form's order, and
\* nothing else (update_product: "reconciliación completa").
SavedIsOnSale ==
  saved # NotSaved =>
    LET at(k) == CHOOSE i \in DOMAIN variants : variants[i].order = k
    IN  /\ \A k \in DOMAIN saved :
             /\ variants[at(k)].active = saved[k].active
             /\ saved[k].size # None => variants[at(k)].size = saved[k].size
             /\ saved[k].id # None => at(k) = saved[k].id
        /\ \A i \in DOMAIN variants : variants[i].order > Len(saved) => ~variants[i].active
=============================================================================
