-------------------------------- MODULE Tenancy --------------------------------
(***************************************************************************)
(* What a tenant may have: its accounts and the invitations to open one,   *)
(* its tables, and its payment methods, within the limits of its plan      *)
(* (core/plan_limits.py, invitations/router.py, users/router.py,           *)
(* auth/routes.py, sales/service.py, super_admin).                         *)
(*                                                                         *)
(* Creating what a plan limits locks the tenant's row up to the commit;    *)
(* everything else locks at most its own row.  Requests of a kind in Alone *)
(* overlap no other.  Cash registers and products are created as tables    *)
(* are.  An account's password, sessions and tokens are in Credentials.   *)
(***************************************************************************)
EXTENDS Integers, FiniteSets

CONSTANTS
  Emails, Founder,    \* addresses, and the one the tenant was created with
  Methods,            \* payment methods of the platform's catalog
  MaxTables,
  MaxSent,            \* bound: passwords made for an invitation
  Plans,              \* plans: the limit of each resource; Unlimited: null
  Requests, Alone, None

Resources == {"usuarios", "mesas", "metodos_pago_activos"}
Unlimited == -1

VARIABLES
  user,       \* [active, admin] of each account; None: no account
  invited,    \* addresses with a pending invitation
  password,   \* the password that opens each of them, a number
  mailed,     \* the passwords that were sent to each
  letter,     \* who locks each invitation
  tables,     \* tables created
  method,     \* of each payment method: "absent", "active" or "inactive"
  limit,      \* the plan's limits
  expired,    \* the plan's term is over
  holder,     \* who locks the tenant's row
  req         \* requests in flight, and what they have read

vars == <<user, invited, password, mailed, letter, tables, method, limit, expired, holder, req>>
letters == <<password, mailed, letter>>

Account == [active : BOOLEAN, admin : BOOLEAN]
Idle    == [kind |-> "idle"]
Kinds   == {"idle", "create", "resend", "manage", "off"}
Sent    == 0 .. MaxSent

\* What the theorems assume of the constants.
Allotted == /\ IsFiniteSet(Emails) /\ IsFiniteSet(Methods) /\ Founder \in Emails
            /\ None \notin Requests \cup Account /\ Plans \subseteq [Resources -> Int]
            /\ {"manage", "off", "plan"} \subseteq Alone

TypeOK ==
  /\ user \in [Emails -> Account \cup {None}]
  /\ invited \subseteq Emails
  /\ password \in [Emails -> Sent] /\ mailed \in [Emails -> SUBSET Sent]
  /\ letter \in [Emails -> Requests \cup {None}]
  /\ tables \in 0..MaxTables
  /\ method \in [Methods -> {"absent", "active", "inactive"}]
  /\ holder \in Requests \cup {None}
  /\ \A r \in Requests : req[r].kind \in Kinds

\* create_tenant: one administrator.  One payment method is active from the start.
Init ==
  /\ user = [e \in Emails |-> IF e = Founder THEN [active |-> TRUE, admin |-> TRUE] ELSE None]
  /\ invited = {}
  /\ password = [e \in Emails |-> 0] /\ mailed = [e \in Emails |-> {}]
  /\ letter = [e \in Emails |-> None]
  /\ tables = 0
  /\ method \in {m \in [Methods -> {"absent", "active"}] :
                   Cardinality({x \in Methods : m[x] = "active"}) = 1}
  /\ limit \in Plans
  /\ expired = FALSE
  /\ holder = None
  /\ req = [r \in Requests |-> Idle]

Users        == {e \in Emails : user[e] # None}
Admin(e)     == user[e] # None /\ user[e].active /\ user[e].admin
ActiveMethods == {m \in Methods : method[m] = "active"}

-----------------------------------------------------------------------------
(* Overlapping. *)

Flying(r) == {req[q].kind : q \in Requests \ {r}} \ {"idle"}
MayStart(r, kind) ==
  /\ req[r] = Idle
  /\ Flying(r) \cap Alone = {} /\ (kind \in Alone => Flying(r) = {})
MayAct(kind) == kind \in Alone => \A r \in Requests : req[r] = Idle

-----------------------------------------------------------------------------
(* Creating what the plan limits. *)

\* enforce_plan_limit: the lock, the term, then the count.
Wait_No(r) == UNCHANGED holder
Wait(r) == holder = None /\ holder' = r

Enforce(r, what, x) ==
  /\ MayStart(r, "create") /\ Wait(r) /\ ~expired
  /\ req' = [req EXCEPT ![r] = [kind |-> "create", stage |-> "locked", what |-> what, of |-> x]]
  /\ UNCHANGED <<user, invited, letters, tables, method, limit, expired>>

\* _count_resource: users first, the pending invitations in a second query.
CountOf(what) ==
  CASE what = "usuarios" -> Cardinality(Users)
    [] what = "mesas"    -> tables
    [] OTHER             -> Cardinality(ActiveMethods)

Count(r) ==
  /\ req[r].kind = "create" /\ req[r].stage = "locked"
  /\ req' = [req EXCEPT ![r] = [kind |-> "create", stage |-> "counted", what |-> @.what,
                                of |-> @.of, n |-> CountOf(@.what)]]
  /\ UNCHANGED <<user, invited, letters, tables, method, limit, expired, holder>>

Within(what, n) == limit[what] = Unlimited \/ n < limit[what]
Pending(what) == IF what = "usuarios" THEN Cardinality(invited) ELSE 0

\* create_invitation looks for the account then; create_payment_method for the row.
Taken(what, x) ==
  \/ what = "usuarios" /\ x \in Users
  \/ what = "metodos_pago_activos" /\ method[x] # "absent"

Allow(r) ==
  LET q == req[r]
  IN  /\ q.kind = "create" /\ q.stage = "counted"
      /\ Within(q.what, q.n + Pending(q.what)) /\ ~Taken(q.what, q.of)
      /\ req' = [req EXCEPT ![r].stage = "allowed"]
      /\ UNCHANGED <<user, invited, letters, tables, method, limit, expired, holder>>

Release(r) == IF holder = r THEN None ELSE holder
Ends(r) ==
  /\ req' = [req EXCEPT ![r] = Idle] /\ holder' = Release(r)
  /\ letter' = [e \in Emails |-> IF letter[e] = r THEN None ELSE letter[e]]
  /\ UNCHANGED <<user, limit, expired>>

Allowed(r, what) == req[r].kind = "create" /\ req[r].stage = "allowed" /\ req[r].what = what

\* The insertion, which is refused when the address has a pending invitation, the mail, the commit.
Invite(r) ==
  /\ Allowed(r, "usuarios") /\ req[r].of \notin invited
  /\ invited' = invited \cup {req[r].of}
  /\ password' = [password EXCEPT ![req[r].of] = 1] /\ mailed' = [mailed EXCEPT ![req[r].of] = {1}]
  /\ Ends(r) /\ UNCHANGED <<tables, method>>

AddTable(r) ==
  /\ Allowed(r, "mesas") /\ tables < MaxTables
  /\ tables' = tables + 1
  /\ Ends(r) /\ UNCHANGED <<invited, password, mailed, method>>

AddMethod(r) ==
  /\ Allowed(r, "metodos_pago_activos")
  /\ method' = [method EXCEPT ![req[r].of] = "active"]
  /\ Ends(r) /\ UNCHANGED <<invited, password, mailed, tables>>

\* A refusal, a mail that does not go out, a crash: nothing is left behind.
Fail(r) ==
  /\ req[r] # Idle /\ Ends(r)
  /\ UNCHANGED <<invited, password, mailed, tables, method>>

-----------------------------------------------------------------------------
(* Invitations and accounts. *)

\* _get_pending_invitation_for_tenant, _consume_invitation_if_valid: the row's lock.
Unlocked(e) == e \in invited /\ letter[e] = None

Opens(e) == password[e] \in mailed[e]

Gone(e) ==
  /\ invited' = invited \ {e} /\ password' = [password EXCEPT ![e] = 0]
  /\ mailed' = [mailed EXCEPT ![e] = {}]

\* The first login, with a password that was sent; the account's key to its tenant is checked at
\* its insertion, which waits for whoever has locked the tenant's row.
KeyFree_No == TRUE
KeyFree == holder = None

Consume(e, admin) ==
  /\ KeyFree /\ e \notin Users /\ Unlocked(e) /\ Opens(e)
  /\ user' = [user EXCEPT ![e] = [active |-> TRUE, admin |-> admin]]
  /\ Gone(e)
  /\ UNCHANGED <<letter, tables, method, limit, expired, holder, req>>

CancelInvitation(e) ==
  /\ Unlocked(e) /\ Gone(e)
  /\ UNCHANGED <<user, letter, tables, method, limit, expired, holder, req>>

\* resend_invitation: a new password is mailed, then it takes the place of the other.
Resend(r, e) ==
  LET n == 1 + Cardinality(mailed[e])
  IN  /\ MayStart(r, "resend") /\ Unlocked(e) /\ n <= MaxSent
      /\ letter' = [letter EXCEPT ![e] = r]
      /\ req' = [req EXCEPT ![r] = [kind |-> "resend", of |-> e, stage |-> 1, n |-> n]]
      /\ UNCHANGED <<user, invited, password, mailed, tables, method, limit, expired, holder>>

Halves_SaveFirst == <<"save", "mail">>
Halves == <<"mail", "save">>

Resends(r) ==
  LET q == req[r]
  IN  /\ q.kind = "resend"
      /\ \/ Halves[q.stage] = "mail" /\ UNCHANGED password
            /\ mailed' = [mailed EXCEPT ![q.of] = @ \cup {q.n}]
         \/ Halves[q.stage] = "save" /\ UNCHANGED mailed
            /\ password' = [password EXCEPT ![q.of] = q.n]
      /\ \/ q.stage = 1 /\ req' = [req EXCEPT ![r].stage = 2]
            /\ UNCHANGED <<user, letter, limit, expired, holder>>
         \/ q.stage = 2 /\ Ends(r)
      /\ UNCHANGED <<invited, tables, method>>

\* update_user_role writes the role, update_user_status whether the account is active: an
\* administrator, on another account (his own he may only switch on).
Others_Any(by, e) == TRUE
Others(by, e) == by # e

Manage(r, by, e, field, to) ==
  /\ MayStart(r, "manage") /\ Admin(by) /\ e \in Users
  /\ Others(by, e) \/ (field = "active" /\ to)
  /\ req' = [req EXCEPT ![r] = [kind |-> "manage", of |-> e, field |-> field, to |-> to]]
  /\ UNCHANGED <<user, invited, letters, tables, method, limit, expired, holder>>

CommitManage(r) ==
  LET q == req[r]
  IN  /\ q.kind = "manage"
      /\ user' = [user EXCEPT ![q.of] = [@ EXCEPT ![q.field] = q.to]]
      /\ req' = [req EXCEPT ![r] = Idle]
      /\ UNCHANGED <<invited, letters, tables, method, limit, expired, holder>>

-----------------------------------------------------------------------------
(* Payment methods: update_payment_method. *)

Spare(m) == ActiveMethods \ {m} # {}

SwitchOff(r, m) ==
  /\ MayStart(r, "off") /\ method[m] = "active" /\ Spare(m)
  /\ req' = [req EXCEPT ![r] = [kind |-> "off", of |-> m]]
  /\ UNCHANGED <<user, invited, letters, tables, method, limit, expired, holder>>

CommitOff(r) ==
  /\ req[r].kind = "off"
  /\ method' = [method EXCEPT ![req[r].of] = "inactive"]
  /\ req' = [req EXCEPT ![r] = Idle]
  /\ UNCHANGED <<user, invited, letters, tables, limit, expired, holder>>

\* Back on, with no look at the plan.
SwitchOn(m) ==
  /\ method[m] = "inactive"
  /\ method' = [method EXCEPT ![m] = "active"]
  /\ UNCHANGED <<user, invited, letters, tables, limit, expired, holder, req>>

-----------------------------------------------------------------------------
(* The platform. *)

\* update_tenant_plan writes the tenant's row; update_plan, the plan's.
ChangePlan(l) ==
  /\ MayAct("plan") /\ holder = None
  /\ limit' = l /\ expired' = FALSE
  /\ UNCHANGED <<user, invited, letters, tables, method, holder, req>>

EditPlan(l) ==
  /\ MayAct("plan") /\ limit' = l
  /\ UNCHANGED <<user, invited, letters, tables, method, expired, holder, req>>

TermEnds ==
  /\ ~expired /\ expired' = TRUE
  /\ UNCHANGED <<user, invited, letters, tables, method, limit, holder, req>>

Next ==
  \/ \E r \in Requests :
       \/ \E e \in Emails : Enforce(r, "usuarios", e)
       \/ Enforce(r, "mesas", None)
       \/ \E m \in Methods : Enforce(r, "metodos_pago_activos", m) \/ SwitchOff(r, m)
       \/ Count(r) \/ Allow(r) \/ Invite(r) \/ AddTable(r) \/ AddMethod(r) \/ Fail(r)
       \/ \E by, e \in Emails, field \in {"active", "admin"}, to \in BOOLEAN : Manage(r, by, e, field, to)
       \/ CommitManage(r) \/ CommitOff(r) \/ Resends(r)
       \/ \E e \in Emails : Resend(r, e)
  \/ \E e \in Emails : (\E admin \in BOOLEAN : Consume(e, admin)) \/ CancelInvitation(e)
  \/ \E m \in Methods : SwitchOn(m)
  \/ \E l \in Plans : ChangePlan(l) \/ EditPlan(l)
  \/ TermEnds

Spec == Init /\ [][Next]_vars

-----------------------------------------------------------------------------
(* Properties. *)

Seats == Cardinality(Users) + Cardinality(invited)

\* A seat or a table is added only within the plan, an invitation counting as the account it
\* will be: whoever takes one up meanwhile, the seats counted are those there are.
WithinPlan ==
  [][/\ Seats' > Seats   => Within("usuarios", Seats)
     /\ tables' > tables => Within("mesas", tables)]_vars

\* No invitation is pending for someone who has an account already, and so could never be
\* taken up, and would hold its seat.
InvitedAreNew == invited \cap Users = {}

\* An invitation can be taken up with a password that was sent for it, however a resending ends
\* (invitations/router.py:207: "nunca deja la invitación sin ninguna contraseña funcional
\* conocida por nadie").
InvitedCanEnter == \A e \in invited : Opens(e)

\* Somebody can always administer the tenant, provided administrators do not act at once: they
\* may demote and switch off one another, never themselves.
AnAdminRemains == \E e \in Emails : Admin(e)

\* Customers can always pay: one payment method is always active ("Debe quedar al menos un
\* método de pago activo"), provided no two are switched off at once.
AMethodRemains == ActiveMethods # {}
=============================================================================
