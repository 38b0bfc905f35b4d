------------------------------ MODULE MCBackOffice ------------------------------
(***************************************************************************)
(* The back office for TLC: the inventory (two items, one variant with a   *)
(* recipe and one option), the cash desk, the tenant's accounts and plan,  *)
(* its images, one payment method, and the credentials of one account.     *)
(* They share no row:                                                      *)
(* a behaviour is of one of them, and the rest stays as it began.          *)
(***************************************************************************)
EXTENDS Inventory, BackOffice, TLC

CONSTANTS r1, r2, none

-----------------------------------------------------------------------------
(* Inventory. *)

CONSTANTS flavour, mint, NoItem, bare, full, p1

\* What the lines are: line 1 chooses the option, line 2 does not.
Mint == [group |-> flavour, item |-> 2, quantity |-> 1, active |-> TRUE]

C == INSTANCE Consumption WITH
       Groups <- {flavour}, Options <- {mint}, Option <- [o \in {mint} |-> Mint]

Line == [l \in Lines |-> [n |-> 1, chosen |-> [o \in {mint} |-> IF l = 1 THEN 1 ELSE 0],
                          perLine |-> {}]]

\* Two states of the catalogue: only the option consumes; a recipe of both items.
Variant == [c \in Configs |->
  [tracks |-> TRUE, offered |-> {flavour}, perOption |-> [h \in {flavour} |-> 0],
   recipe |-> [g \in Items |-> IF c = full THEN 1 ELSE 0]]]

ASSUME WellFormed == /\ Line \in [Lines -> C!LineRow] /\ Variant \in [Configs -> C!VariantRow]
                     /\ Mint \in C!OptionRow

MCNeed     == [c \in Configs |-> [l \in Lines |-> C!Required(Variant[c], Line[l])]]
MCSellable == [c \in Configs |-> {l \in Lines : C!Verdict(Variant[c], Line[l]) = "ok"}]
MCBatches  == {{1}, {2}, Lines}
MCAmounts  == {[g \in Items |-> 1], [g \in Items |-> IF g = 1 THEN 1 ELSE 0]}
MCStock0   == [g \in Items |-> g]

-----------------------------------------------------------------------------
(* The cash desk: bills paid exactly, with change, and one that is refused. *)

CONSTANTS c1, noPrefix, own

Bill(t, c, o) == [subtotal |-> t, discount |-> 0, extra |-> 0, cash |-> c, other |-> o]
Exact == Bill(2, 1, 1)
WithChange == Bill(2, 3, 0)
Over == Bill(1, 1, 2)

MCAccounts == {<<Exact, WithChange>>, <<Exact, Over>>}
MCMoves    == {-1}

-----------------------------------------------------------------------------
(* The tenant: three addresses, two payment methods, a small plan and a larger one. *)

CONSTANTS ana, bea, carl, cash, card

PlanOf(u, t, m) == "usuarios" :> u @@ "mesas" :> t @@ "metodos_pago_activos" :> m
MCPlans == {PlanOf(2, 1, 1), PlanOf(3, 2, -1)}

-----------------------------------------------------------------------------
(* Images: two products, three files.  One account: three requests, two links, two seconds. *)

CONSTANTS prod1, prod2, k1, k2, k3, url
CONSTANTS l1, l2, q1, q2, q3

-----------------------------------------------------------------------------
(* One payment method: an account's number and a QR code. *)

CONSTANTS number, qr, blank, filled, file

Asks(n, q) == number :> n @@ qr :> q
MCRules  == {Asks("required", "optional"), Asks("optional", "required"), Asks("required", "absent")}
MCValues == number :> {filled} @@ qr :> {file}

ASSUME M!WellFormed

\* What the theorems about these parts assume holds of this instance.
ASSUME Assumed == D!Billed /\ A!Distinct /\ A!RewritesAlone /\ Cr!Lives /\ T!Allotted /\ M!EditsAlone

-----------------------------------------------------------------------------
VARIABLE part

MCInit == /\ part \in {"inventory", "desk", "tenant", "images", "login", "payments"}
          /\ Init /\ D!Init /\ T!Init /\ A!Init /\ Cr!Init /\ M!Init
          /\ part # "payments" => entry.rule = Asks("required", "absent")

MCNext ==
  /\ UNCHANGED part
  /\ \/ part = "inventory" /\ Next
        /\ UNCHANGED <<deskVars, tenantVars, imageVars, loginVars, methodVars>>
     \/ part = "desk" /\ D!Next
        /\ UNCHANGED <<vars, tenantVars, imageVars, loginVars, methodVars>>
     \/ part = "tenant" /\ T!Next
        /\ UNCHANGED <<vars, deskVars, imageVars, loginVars, methodVars>>
     \/ part = "images" /\ A!Next
        /\ UNCHANGED <<vars, deskVars, tenantVars, loginVars, methodVars>>
     \/ part = "login" /\ Cr!Next
        /\ UNCHANGED <<vars, deskVars, tenantVars, imageVars, methodVars>>
     \/ part = "payments" /\ M!Next
        /\ UNCHANGED <<vars, deskVars, tenantVars, imageVars, loginVars>>

MCSpec ==
  MCInit /\ [][MCNext]_<<vars, deskVars, tenantVars, imageVars, loginVars, methodVars, part>>

View == <<part, CASE part = "inventory" -> vars
                  [] part = "desk" -> deskVars
                  [] part = "tenant" -> tenantVars
                  [] part = "images" -> imageVars
                  [] part = "login" -> loginVars
                  [] part = "payments" -> methodVars>>

Symmetry == Permutations(Requests)
=============================================================================
