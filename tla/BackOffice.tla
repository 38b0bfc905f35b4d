------------------------------- MODULE BackOffice -------------------------------
(***************************************************************************)
(* The parts of the back office that share no row with one another: the    *)
(* cash desk, the tenant with its accounts and its plan, its images, the   *)
(* credentials of one account and one payment method.  Each is an instance *)
(* of its own module, over the same clerks; here are their properties.     *)
(***************************************************************************)
EXTENDS Naturals

CONSTANTS Clerks,      \* requests in flight at once
          Null

-----------------------------------------------------------------------------
(* The cash desk. *)

CONSTANTS Registers, Shifts, InvoicePrefixes, Openings, Moves, Counts, Accounts, DeskAlone,
          MaxSales, MaxOrders, MaxMoves
VARIABLES shift, sales, counter, turn, moves, drawer, saleReq

deskVars == <<shift, sales, counter, turn, moves, drawer, saleReq>>

D == INSTANCE CashDesk WITH Requests <- Clerks, Alone <- DeskAlone, req <- saleReq

-----------------------------------------------------------------------------
(* The tenant. *)

CONSTANTS Emails, Founder, Methods, MaxTables, MaxSent, Plans, TenantAlone
VARIABLES user, invited, invitePassword, mailed, letter, tables, method, limit, expired,
          tenantHolder, tenantReq

tenantVars == <<user, invited, invitePassword, mailed, letter, tables, method, limit, expired,
                tenantHolder, tenantReq>>

T == INSTANCE Tenancy WITH Requests <- Clerks, Alone <- TenantAlone, None <- Null,
       password <- invitePassword, holder <- tenantHolder, req <- tenantReq

-----------------------------------------------------------------------------
(* Images. *)

CONSTANTS Rows, Keys, Foreign, Forms, ImagesAlone
VARIABLES row, stored, keyHolder, imageReq, script

imageVars == <<row, stored, keyHolder, imageReq, script>>

A == INSTANCE Assets WITH Requests <- Clerks, Alone <- ImagesAlone, None <- Null,
       holder <- keyHolder, req <- imageReq

-----------------------------------------------------------------------------
(* The credentials of one account. *)

CONSTANTS Links, Logins, Life, AccessLife, RefreshLife, MaxTime
VARIABLES now, password, cut, active, link, linkHolder, token, loginReq

loginVars == <<now, password, cut, active, link, linkHolder, token, loginReq>>

Cr == INSTANCE Credentials WITH Requests <- Logins, None <- Null, holder <- linkHolder,
        req <- loginReq

-----------------------------------------------------------------------------
(* One payment method. *)

CONSTANTS Fields, Images, Values, Blank, Rules, FieldsAlone, MaxCatalogEdits
VARIABLES entry, methodRow, others, methodReq, rulesThen, edits

methodVars == <<entry, methodRow, others, methodReq, rulesThen, edits>>

M == INSTANCE PaymentMethods WITH Requests <- Clerks, Alone <- FieldsAlone, None <- Null,
       row <- methodRow, req <- methodReq

-----------------------------------------------------------------------------
(* Properties. *)

\* Invoices of a prefix and turns of a shift are numbered in the order they commit, with no
\* number twice and none missing, and the number that an order has counted is still free when
\* it commits: whatever sales, orders and closes overlap, roll back or create the counter.
NumberedInOrder == D!InvoicesInOrder /\ D!TurnInOrder

\* What a closed shift counted is explained by its opening, its sales and its movements.
DrawerAddsUp == D!ClosedIsExplained

\* A seat or a table is added only within the plan, whoever takes up an invitation meanwhile.
WithinPlan == T!WithinPlan

\* No invitation is pending for somebody who has an account, and holds its seat for ever, and
\* each can be taken up with a password that was sent for it; an
\* active administrator and an active payment method always remain; the till is offered the
\* methods whose data are complete.
TenantIsUsable == T!InvitedAreNew /\ T!InvitedCanEnter /\ T!AnAdminRemains /\ T!AMethodRemains
                  /\ M!TillOffersComplete

\* The file a row refers to is in the store, where the rewriting of URLs overlaps nothing.
ReferencedIsStored == A!ReferencedIsStored

\* A link that changes a password is consumed once, whoever logs in after the change is not
\* taken for somebody who had logged in before it, and tokens stay out that are a second older
\* than the change or were logged out.
CredentialsHold == Cr!CredentialsHold
=============================================================================
