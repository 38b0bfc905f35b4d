----------------------------- MODULE PaymentMethods -----------------------------
(***************************************************************************)
(* One payment method of a tenant (sales/service.py) and its entry in the  *)
(* platform's catalog (super_admin/payment_methods_router.py): the fields  *)
(* that the entry asks for, what the tenant has filled in, and whether it  *)
(* is complete, which the till goes by.                                    *)
(*                                                                         *)
(* Requests read, unlocked, and commit later what they have changed of the *)
(* row.  Of a kind in Alone no two requests overlap.  A value of the       *)
(* wrong format is refused, and changes nothing.  Limits of the plan are   *)
(* in Tenancy, the files themselves in Assets.                             *)
(***************************************************************************)
EXTENDS Integers

CONSTANTS
  Fields, Images,     \* fields an entry may ask for, and which of them are files
  Values,             \* Values[f]: well-formed values
  Blank,              \* not filled in
  Rules,              \* what entries ask for: of each field, "absent", "optional" or "required"
  Requests, Alone, None,
  MaxCatalogEdits

WellFormed == Images \subseteq Fields /\ Rules \subseteq [Fields -> {"absent", "optional", "required"}]

VARIABLES
  entry,      \* the catalog's: active, and rule[f]
  row,        \* the tenant's: active, info[f], complete; None before it is created
  others,     \* another method of the tenant is active
  req,
  rulesThen,  \* history: the rules the row's info was last judged by
  edits

vars == <<entry, row, others, req, rulesThen, edits>>

Infos == {i \in [Fields -> {Blank} \cup UNION {Values[f] : f \in Fields}] :
            \A f \in Fields : i[f] \in Values[f] \cup {Blank}}
Idle  == [kind |-> "idle"]
Row   == [active : BOOLEAN, info : Infos, complete : BOOLEAN]

\* What the theorem assumes of the constants.
EditsAlone == None \notin Row /\ "info" \in Alone

TypeOK ==
  /\ entry \in [active : BOOLEAN, rule : Rules]
  /\ row = None \/ row \in Row
  /\ others \in BOOLEAN /\ rulesThen \in Rules \cup {None} /\ edits \in 0 .. MaxCatalogEdits
  /\ \A r \in Requests : req[r].kind \in {"idle", "create", "info", "switch"}

\* A new entry is active; the tenant has another method.
Init ==
  /\ entry \in [active : {TRUE}, rule : Rules] /\ row = None /\ others = TRUE
  /\ req = [r \in Requests |-> Idle] /\ rulesThen = None /\ edits = 0

-----------------------------------------------------------------------------

MayStart(r, kind) ==
  /\ req[r] = Idle
  /\ kind \in Alone => \A q \in Requests : req[q].kind # kind

\* _validate_payment_info of a well-formed info.
Complete(rule, info) == \A f \in Fields : rule[f] = "required" => info[f] # Blank

\* _image_field_keys.
Managed(rule) == {f \in Images : rule[f] # "absent"}

\* create_payment_method.
Create(r, info) ==
  /\ MayStart(r, "create") /\ entry.active /\ row = None
  /\ req' = [req EXCEPT ![r] = [kind |-> "create", rule |-> entry.rule,
       set |-> [active |-> TRUE, info |-> info, complete |-> Complete(entry.rule, info)]]]
  /\ UNCHANGED <<entry, row, others, rulesThen, edits>>

\* catalog_id is unique.
CommitCreate(r) ==
  /\ req[r].kind = "create" /\ row = None
  /\ row' = req[r].set /\ rulesThen' = req[r].rule
  /\ req' = [req EXCEPT ![r] = Idle] /\ UNCHANGED <<entry, others, edits>>

\* _resolve_payment_images: a file is changed, or taken away, only by a form that showed the
\* one there is; otherwise that one stays.
Resolved(rule, current, sent, base) ==
  [f \in Fields |->
     IF f \in Managed(rule) /\ sent[f] # current[f] /\ base[f] # current[f] THEN current[f]
     ELSE sent[f]]

\* The info that is judged: what is going to be stored, not what was sent.
Judged_AsSent(sent, resolved) == sent
Judged(sent, resolved) == resolved

\* update_payment_method with payment_info: `base` is what the form showed when it was opened.
EditInfo(r, sent, base) ==
  LET resolved == Resolved(entry.rule, row.info, sent, base)
  IN  /\ MayStart(r, "info") /\ row # None
      /\ req' = [req EXCEPT ![r] = [kind |-> "info", rule |-> entry.rule, was |-> row,
           set |-> [row EXCEPT !.info = resolved,
                               !.complete = Complete(entry.rule, Judged(sent, resolved))]]]
      /\ UNCHANGED <<entry, row, others, rulesThen, edits>>

\* update_payment_method with active: the last active method stays on, and nothing is judged.
Switch(r) ==
  /\ MayStart(r, "switch") /\ row # None /\ (row.active => others)
  /\ req' = [req EXCEPT ![r] = [kind |-> "switch", was |-> row,
                                set |-> [row EXCEPT !.active = ~row.active]]]
  /\ UNCHANGED <<entry, row, others, rulesThen, edits>>

\* The flush writes the columns that differ from what was read.
Written_Whole(q) == q.set
Written(q) == [c \in DOMAIN row |-> IF q.set[c] # q.was[c] THEN q.set[c] ELSE row[c]]

Commit(r) ==
  LET q == req[r]
  IN  /\ q.kind \in {"info", "switch"}
      /\ row' = Written(q)
      /\ rulesThen' = IF q.kind = "info" THEN q.rule ELSE rulesThen
      /\ req' = [req EXCEPT ![r] = Idle] /\ UNCHANGED <<entry, others, edits>>

\* A refusal, or a crash.
Fail(r) ==
  /\ req[r] # Idle /\ req' = [req EXCEPT ![r] = Idle]
  /\ UNCHANGED <<entry, row, others, rulesThen, edits>>

\* The tenant's other methods.
Other ==
  /\ others' = ~others /\ UNCHANGED <<entry, row, req, rulesThen, edits>>

\* update_payment_method_catalog.
EditEntry(to) ==
  /\ edits < MaxCatalogEdits /\ edits' = edits + 1
  /\ entry' = to /\ to # entry
  /\ UNCHANGED <<row, others, req, rulesThen>>

\* list_available_payment_methods.
AtTheTill == row # None /\ row.active /\ row.complete /\ entry.active

Next ==
  \/ \E r \in Requests :
       \/ \E info \in Infos : Create(r, info)
       \/ \E sent, base \in Infos : EditInfo(r, sent, base)
       \/ CommitCreate(r) \/ Switch(r) \/ Commit(r) \/ Fail(r)
  \/ Other
  \/ \E a \in BOOLEAN, rule \in Rules : EditEntry([active |-> a, rule |-> rule])

Spec == Init /\ [][Next]_vars

-----------------------------------------------------------------------------
(* Properties. *)

\* The till is offered a method exactly if it is active here and there, and the data it is
\* stored with, files that stayed although the form had others included, are all that the
\* catalog asked for when they were stored: nothing else disturbs the mark, provided no two
\* edits of the data overlap (models/payment.py:59: "comparando contra `catalog.fields` vigente
\* en ese momento").
TillOffersComplete ==
  row # None => (AtTheTill <=> row.active /\ entry.active /\ Complete(rulesThen, row.info))
=============================================================================
