----------------------------- MODULE Credentials -----------------------------
(***************************************************************************)
(* The credentials of one account, api/v1/auth/routes.py: passwords, the   *)
(* links that reset them, the tokens a login mints, the instant before     *)
(* which a token is no longer accepted (users.tokens_valid_after), and the *)
(* tokens that were logged out (core/redis.py).                            *)
(*                                                                         *)
(* Time is counted in half seconds, because a token's iat and exp are in   *)
(* whole seconds and the clock is not.  Requests overlap: each reads,      *)
(* with or without the row lock of a link, and commits or mints later.     *)
(* UPDATE waits for the links it changes and looks at them again.          *)
(***************************************************************************)
EXTENDS Integers, FiniteSets, Sequences

CONSTANTS
  Links,      \* password_reset_tokens
  Requests,   \* bound: requests, each made once
  Life,       \* PASSWORD_RESET_TOKEN_EXPIRY_MINUTES
  AccessLife, \* ACCESS_TOKEN_EXPIRY
  RefreshLife, \* REFRESH_TOKEN_EXPIRY_MINUTES
  MaxTime,    \* bound: half seconds
  None

VARIABLES
  now,
  password,   \* a number, which grows with every change
  cut,        \* tokens_valid_after, None before the first change
  active,
  link,       \* link[l]: issued, used and invalidated at, None for never
  holder,     \* who has the row lock of a link
  token,      \* the tokens minted, their jti the place: iat and exp, when it really was,
              \* and until when the blocklist has it
  req         \* what each request is doing

vars == <<now, password, cut, active, link, holder, token, req>>

\* What the theorems assume of the constants.
Lives == None \notin Requests /\ {AccessLife, RefreshLife} \subseteq Nat

Times  == 0 .. MaxTime
NoLink == [issued |-> None, used |-> None, invalidated |-> None]
Fresh  == [at |-> "new", read |-> None, links |-> {}]
Jtis   == 1 .. Len(token)

TypeOK ==
  /\ now \in Times /\ password \in Nat /\ cut \in Times \cup {None} /\ active \in BOOLEAN
  /\ \A l \in Links : \A f \in DOMAIN NoLink : link[l][f] \in Times \cup {None}
  /\ holder \in [Links -> Requests \cup {None}]
  /\ \A k \in Jtis : token[k].minted \in Times /\ token[k].refresh \in BOOLEAN
  /\ \A r \in Requests : req[r].at \in {"new", "login", "refresh", "change", "update", "reset",
                                        "done"}

Init ==
  /\ now = 0 /\ password = 0 /\ cut = None /\ active = TRUE
  /\ link = [l \in Links |-> NoLink] /\ holder = [l \in Links |-> None]
  /\ token = <<>> /\ req = [r \in Requests |-> Fresh]

-----------------------------------------------------------------------------

Second(t) == t \div 2

\* _reject_if_session_revoked: the cut loses its fraction too, because iat has none.
CutOver_Exact(t) == (t + 1) \div 2
CutOver_Leeway(t) == Second(t) - 1
CutOver(t) == Second(t)
Revoked(k) == cut # None /\ token[k].iat < CutOver(cut)

\* TokenBearer, get_valid_token_data: the token has not expired, nor is it in the blocklist.
Blocked(k) == token[k].until # None /\ now < token[k].until
Valid(k)   == now < 2 * token[k].exp /\ ~Blocked(k)

Accepted(k) == Valid(k) /\ active /\ ~Revoked(k)

\* create_access_token.
Mint(refresh) ==
  [iat |-> Second(now), exp |-> Second(now + (IF refresh THEN RefreshLife ELSE AccessLife)),
   minted |-> now, refresh |-> refresh, until |-> None]

Goes(r, at, read) == req' = [req EXCEPT ![r] = [at |-> at, read |-> read, links |-> {}]]
Ends(r) == Goes(r, "done", None)

\* login reads the account...
Login(r) ==
  /\ req[r].at = "new" /\ active
  /\ Goes(r, "login", password)
  /\ UNCHANGED <<now, password, cut, active, link, holder, token>>

\* ... and mints once the session is closed.
LoginMints(r) ==
  /\ req[r].at = "login"
  /\ token' = token \o <<Mint(FALSE), Mint(TRUE)>>
  /\ Ends(r)
  /\ UNCHANGED <<now, password, cut, active, link, holder>>

\* get_new_access_token reads the account again, and looks at the cut.
Refresh(r, k) ==
  /\ req[r].at = "new" /\ token[k].refresh /\ Accepted(k)
  /\ Goes(r, "refresh", password)
  /\ UNCHANGED <<now, password, cut, active, link, holder, token>>

RefreshMints(r) ==
  /\ req[r].at = "refresh"
  /\ token' = Append(token, Mint(FALSE))
  /\ Ends(r)
  /\ UNCHANGED <<now, password, cut, active, link, holder>>

\* add_jti_to_blocklist: a key that lasts the whole seconds the token has left, one at least.
JtiExpiry == 1
Ttl_Fixed(k) == JtiExpiry
Ttl(k) ==
  LET left == (2 * token[k].exp - now) \div 2 IN IF left < 1 THEN 1 ELSE left

\* revoke_token asks for a valid access token, and looks at no account.
Logout(r, k) ==
  /\ req[r].at = "new" /\ ~token[k].refresh /\ Valid(k)
  /\ token' = [token EXCEPT ![k].until = now + 2 * Ttl(k)]
  /\ Ends(r)
  /\ UNCHANGED <<now, password, cut, active, link, holder>>

-----------------------------------------------------------------------------
(* Links. *)

Unsettled(l) == link[l].used = None /\ link[l].invalidated = None
Live(l) == link[l].issued # None /\ Unsettled(l) /\ now < link[l].issued + Life

\* forgot_password: the UPDATE finds the links that are neither used nor invalidated...
Forgot(r) ==
  /\ req[r].at = "new" /\ active
  /\ req' = [req EXCEPT ![r] = [at |-> "update", read |-> now, links |->
               {l \in Links : link[l].issued # None /\ Unsettled(l)}]]
  /\ UNCHANGED <<now, password, cut, active, link, holder, token>>

\* What an UPDATE that had to wait changes of the rows it found: those that still qualify.
Still_AsFound(S) == S
Still(S) == {l \in S : Unsettled(l)}

\* ... takes them once nobody else has them, and commits with the new link.
ForgotCommits(r, l) ==
  LET q == req[r]
      S == Still(q.links)
  IN  /\ q.at = "update" /\ \A k \in q.links : holder[k] = None
      /\ link[l].issued = None
      /\ link' = [k \in Links |->
           IF k \in S THEN [link[k] EXCEPT !.invalidated = q.read]
           ELSE IF k = l THEN [NoLink EXCEPT !.issued = q.read] ELSE link[k]]
      /\ Ends(r)
      /\ UNCHANGED <<now, password, cut, active, holder, token>>

\* _resolve_reset_token with its lock: the row is read once it is free.
Free_NoLock(l) == TRUE
Free(l) == holder[l] = None

Reset(r, l) ==
  /\ req[r].at = "new" /\ link[l].issued # None /\ Free(l)
  /\ IF Live(l)
     THEN /\ holder' = [holder EXCEPT ![l] = r]
          /\ req' = [req EXCEPT ![r] = [at |-> "reset", read |-> now, links |-> {l}]]
     ELSE Ends(r) /\ UNCHANGED holder
  /\ UNCHANGED <<now, password, cut, active, link, token>>

\* reset_password and change_password: the new password, and every session before `at`.
Changes(at) == password' = password + 1 /\ cut' = at

ResetCommits(r) ==
  LET q == req[r]
  IN  /\ q.at = "reset"
      /\ link' = [l \in Links |-> IF l \in q.links THEN [link[l] EXCEPT !.used = q.read]
                                  ELSE link[l]]
      /\ holder' = [l \in Links |-> IF l \in q.links THEN None ELSE holder[l]]
      /\ Changes(q.read) /\ Ends(r)
      /\ UNCHANGED <<now, active, token>>

\* get_authenticated_user, and the password that is known.
Change(r, k) ==
  /\ req[r].at = "new" /\ ~token[k].refresh /\ Accepted(k)
  /\ Goes(r, "change", now)
  /\ UNCHANGED <<now, password, cut, active, link, holder, token>>

ChangeCommits(r) ==
  /\ req[r].at = "change"
  /\ Changes(req[r].read) /\ Ends(r)
  /\ UNCHANGED <<now, active, link, holder, token>>

\* The process dies: its transaction is rolled back.
Dies(r) ==
  /\ req[r].at \notin {"new", "done"}
  /\ holder' = [l \in Links |-> IF holder[l] = r THEN None ELSE holder[l]]
  /\ Ends(r)
  /\ UNCHANGED <<now, password, cut, active, link, token>>

\* An administrator switches the account off, or on.
Toggle ==
  /\ active' = ~active
  /\ UNCHANGED <<now, password, cut, link, holder, token, req>>

Tick ==
  /\ now < MaxTime /\ now' = now + 1
  /\ UNCHANGED <<password, cut, active, link, holder, token, req>>

-----------------------------------------------------------------------------

Next ==
  \/ \E r \in Requests :
       \/ Login(r) \/ LoginMints(r) \/ RefreshMints(r)
       \/ \E k \in Jtis : Refresh(r, k) \/ Change(r, k) \/ Logout(r, k)
       \/ ChangeCommits(r) \/ Forgot(r) \/ ResetCommits(r) \/ Dies(r)
       \/ \E l \in Links : ForgotCommits(r, l) \/ Reset(r, l)
  \/ Toggle \/ Tick

Spec == Init /\ [][Next]_vars

-----------------------------------------------------------------------------
(* Properties. *)

\* A link ends once: what was used is not used again, by a second click, nor invalidated by a
\* later request for another, and what was invalidated is not used (auth/routes.py:70: "para que un
\* doble consumo concurrente del mismo enlace no aplique un segundo cambio").
LinkEndsOnce == \A l \in Links : ~Unsettled(l) => link'[l] = link[l] /\ holder[l] = None

\* A session that was opened after the last change of the password is not taken for one that
\* was opened before it (dependencies.py:121).
FreshLoginHolds ==
  \A k \in Jtis : active /\ Valid(k) /\ cut # None /\ token[k].minted >= cut => Accepted(k)

\* A session that was opened a second before the last change of the password, or earlier, is
\* over: its tokens are refused, and so renew nothing (users.tokens_valid_after).
OldSessionsEnd ==
  \A k \in Jtis : cut # None /\ token[k].minted + 2 <= cut => ~Accepted(k)

\* A token that was logged out is not accepted again, but for the fraction of a second that
\* the time to live loses (core/redis.py:15: "Revoca un jti hasta que el token caduque por sí
\* solo").
LoggedOutStaysOut ==
  \A k \in Jtis : token[k].until # None /\ now + 2 <= 2 * token[k].exp => ~Accepted(k)

\* The four, of every step.
CredentialsHold ==
  [][LinkEndsOnce /\ FreshLoginHolds' /\ OldSessionsEnd' /\ LoggedOutStaysOut']_vars
=============================================================================
