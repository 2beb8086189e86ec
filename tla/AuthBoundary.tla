------------------------------ MODULE AuthBoundary ------------------------------
(***************************************************************************)
(* The authentication boundary of the host (pkg/app/app.go, bff.go): login  *)
(* and logout, the session cookie, app tokens, the action tokens of forms, *)
(* and the requests that act in the name of a principal.                   *)
(*                                                                         *)
(* Nothing about a session is kept on the server.  A request carries what  *)
(* it was sent with, and the principal is worked out anew whenever it is   *)
(* asked for: an admin action asks twice, at the gate and then for the     *)
(* principal it acts as, and only after that reads its body, for as long   *)
(* as the client takes.  Meanwhile time passes, and what the request       *)
(* carries may expire.  Sessions, app tokens and forms are kept with the   *)
(* ticks of the clock that are left to them.                               *)
(*                                                                         *)
(* A visitor does one thing at a time, and sends its cookie or an app token *)
(* with a request, never both.                                             *)
(***************************************************************************)
EXTENDS Authn

CONSTANTS
  Visitors,        \* the clients that keep their cookie and send requests
  Tokens,          \* the prefixes app tokens are known by
  NoToken, NoSession, NoForm, NoRequest,
  TokenUsers, Grants, Lifetimes,  \* what app tokens are created with
  DefaultLifetime, \* one hour, when no lifetime is asked for
  SessionTTL,      \* eight hours
  FormTTL,         \* ten minutes
  Needed           \* the capabilities REST routes ask for

VARIABLES
  cookie,    \* the session each visitor's browser keeps
  form,      \* the action token of the form each visitor has open
  tokens,    \* the app tokens of the store, by prefix
  request    \* the request each visitor has under way

boundaryVars == <<cookie, form, tokens, request>>
vars == <<authnVars, boundaryVars>>

Expired == -1   \* what is left of a lifetime that is over
Left == {Expired} \cup Nat

\* Forms are signed for an action: the login, the content actions, and those of the
\* other admin forms, which no executor handles.
ContentScope == "admin.content.write"
ScreenScopes == {ContentScope, "admin-write"}
Scopes == {"login"} \cup ScreenScopes

Sessions == [user : Users, left : Left]
Forms == [action : Scopes, left : Left]
AppTokens == [user : Users, caps : Grants, left : Left]

\* The cookie, or an app token that is as it was issued, or is not.
Credentials ==
  {[by |-> "cookie"]} \cup [by : {"token"}, prefix : Tokens, genuine : BOOLEAN]

Principals == [id : Users \cup {NoUser}, caps : SUBSET Capabilities]

Requests ==
  [pc : {"gated", "reading", "executed"}, credential : Credentials,
   principal : Principals, capability : Capabilities]

ASSUME BoundaryAssumption ==
  /\ Visitors \subseteq Clients
  /\ TokenUsers \subseteq Users
  /\ Grants \subseteq SUBSET Capabilities
  /\ Needed \subseteq Capabilities
  /\ Lifetimes \subseteq Nat
  /\ {DefaultLifetime, SessionTTL, FormTTL} \subseteq Nat
  /\ NoSession \notin Sessions /\ NoToken \notin AppTokens
  /\ NoForm \notin Forms /\ NoRequest \notin Requests

BoundaryTypeOK ==
  /\ TypeOK
  /\ cookie \in [Visitors -> Sessions \cup {NoSession}]
  /\ form \in [Visitors -> Forms \cup {NoForm}]
  /\ tokens \in [Tokens -> AppTokens \cup {NoToken}]
  /\ request \in [Visitors -> Requests \cup {NoRequest}]

BoundaryInit ==
  /\ Init
  /\ cookie = [v \in Visitors |-> NoSession]
  /\ form = [v \in Visitors |-> NoForm]
  /\ tokens = [t \in Tokens |-> NoToken]
  /\ request = [v \in Visitors |-> NoRequest]
-----------------------------------------------------------------------------
(***************************************************************************)
(* Who a request comes from.                                               *)
(***************************************************************************)
\* Mutant: the expiry of the session is not looked at.
FromSessionForever(s) == IF s # NoSession THEN Principal(s.user) ELSE Nobody

FromSession(s) ==
  IF s # NoSession /\ s.left # Expired THEN Principal(s.user) ELSE Nobody

\* A token that names capabilities narrows its user to them; one that names
\* none stands for its user.
Narrowed(p, caps) ==
  IF p = Nobody \/ caps = {} THEN p ELSE [p EXCEPT !.caps = @ \cap caps]

AuthenticateAppToken(prefix, genuine) ==
  LET t == tokens[prefix]
  IN  IF t # NoToken /\ genuine /\ t.left # Expired
        THEN Narrowed(Principal(t.user), t.caps) ELSE Nobody

principalFromRequest(v, credential) ==
  IF credential.by = "cookie"
    THEN FromSession(cookie[v])
    ELSE AuthenticateAppToken(credential.prefix, credential.genuine)

validActionToken(v, action) ==
  form[v] # NoForm /\ form[v].action = action /\ form[v].left # Expired

Free(v) == login[v] = NoLogin /\ request[v] = NoRequest
-----------------------------------------------------------------------------
(***************************************************************************)
(* Login and logout.  Clients that are no visitors only try passwords.     *)
(***************************************************************************)
RenderLogin(v) ==
  /\ Free(v)
  /\ form' = [form EXCEPT ![v] = [action |-> "login", left |-> FormTTL]]
  /\ UNCHANGED <<authnVars, cookie, tokens, request>>

\* Mutant: the login does not look at the failures of the identifier.
PostLoginUnlocked(c, i, secret) ==
  /\ c \in Visitors => Free(c) /\ validActionToken(c, "login")
  /\ login[c] = NoLogin
  /\ login' = [login EXCEPT ![c] = [identifier |-> i, secret |-> secret]]
  /\ UNCHANGED <<failures, boundaryVars>>

\* The action token of a form is not used up: it is good until it expires.
PostLogin(c, i, secret) ==
  /\ c \in Visitors => Free(c) /\ validActionToken(c, "login")
  /\ Admit(c, i, secret)
  /\ UNCHANGED boundaryVars

LoginRefused(i) == Refuse(i) /\ UNCHANGED boundaryVars

LoginFails(c) == Fail(c) /\ UNCHANGED boundaryVars

LoginSucceeds(c) ==
  /\ Succeed(c)
  /\ cookie' = IF c \in Visitors
                 THEN [cookie EXCEPT ![c] =
                        [user |-> UserOf[login[c].identifier], left |-> SessionTTL]]
                 ELSE cookie
  /\ UNCHANGED <<form, tokens, request>>

\* The browser forgets the session; nothing is kept that could be revoked.
completeLogout(v) ==
  /\ Free(v)
  /\ cookie' = [cookie EXCEPT ![v] = NoSession]
  /\ UNCHANGED <<authnVars, form, tokens, request>>
-----------------------------------------------------------------------------
CreateAppToken(t, u, caps, ttl) ==
  /\ tokens[t] = NoToken
  /\ Principal(u) # Nobody
  /\ tokens' = [tokens EXCEPT ![t] =
       [user |-> u, caps |-> caps, left |-> IF ttl = 0 THEN DefaultLifetime ELSE ttl]]
  /\ UNCHANGED <<authnVars, cookie, form, request>>

(***************************************************************************)
(* Requests.  Those that are turned away, with 401 or 403, leave no trace. *)
(***************************************************************************)
MayEnter(p) == p # Nobody /\ "admin.access" \in p.caps

\* The screens of posts carry the scope of the content actions.
renderAdminScreen(v, credential, scope) ==
  /\ Free(v)
  /\ MayEnter(principalFromRequest(v, credential))
  /\ form' = [form EXCEPT ![v] = [action |-> scope, left |-> FormTTL]]
  /\ UNCHANGED <<authnVars, cookie, tokens, request>>

Sent(credential, pc, p, capability) ==
  [pc |-> pc, credential |-> credential, principal |-> p, capability |-> capability]

\* The gate of an admin action.
requireBFFJSON(v, credential) ==
  LET p == principalFromRequest(v, credential)
  IN  /\ Free(v)
      /\ MayEnter(p)
      /\ request' = [request EXCEPT ![v] = Sent(credential, "gated", p, "content.write")]
      /\ UNCHANGED <<authnVars, cookie, form, tokens>>

At(v, pc) == request[v] # NoRequest /\ request[v].pc = pc

\* Behind the gate the principal is asked for again, and may be nobody by now.
AskAgain(v) ==
  /\ At(v, "gated")
  /\ request' = [request EXCEPT ![v] =
       Sent(@.credential, "reading", principalFromRequest(v, @.credential), @.capability)]
  /\ UNCHANGED <<authnVars, cookie, form, tokens>>

\* The body has been read: dispatch checks the capability of the principal found
\* before, and the form's token, and executes the action.
handleBFFAction(v) ==
  /\ At(v, "reading")
  /\ request[v].capability \in request[v].principal.caps
  /\ validActionToken(v, ContentScope)
  /\ request' = [request EXCEPT ![v].pc = "executed"]
  /\ UNCHANGED <<authnVars, cookie, form, tokens>>

\* The action is refused, or its body does not parse or does not arrive.
ActionRefused(v) ==
  /\ At(v, "reading")
  /\ request' = [request EXCEPT ![v] = NoRequest]
  /\ UNCHANGED <<authnVars, cookie, form, tokens>>

\* A REST handler, or a plugin's route, asks once.
Authorize(v, credential, capability) ==
  LET p == principalFromRequest(v, credential)
  IN  /\ Free(v)
      /\ p # Nobody /\ capability \in p.caps
      /\ request' = [request EXCEPT ![v] = Sent(credential, "executed", p, capability)]
      /\ UNCHANGED <<authnVars, cookie, form, tokens>>

Answer(v) ==
  /\ At(v, "executed")
  /\ request' = [request EXCEPT ![v] = NoRequest]
  /\ UNCHANGED <<authnVars, cookie, form, tokens>>
-----------------------------------------------------------------------------
LessLeft(left) == IF left = Expired THEN Expired ELSE left - 1

Older(f, none) ==
  [x \in DOMAIN f |-> IF f[x] = none THEN none ELSE [f[x] EXCEPT !.left = LessLeft(@)]]

TimePasses ==
  /\ Tick
  /\ cookie' = Older(cookie, NoSession)
  /\ form' = Older(form, NoForm)
  /\ tokens' = Older(tokens, NoToken)
  /\ UNCHANGED request

BoundaryNext ==
  \/ \E i \in Identifiers : LoginRefused(i)
  \/ \E c \in Clients, i \in Identifiers, secret \in Secrets : PostLogin(c, i, secret)
  \/ \E c \in Clients : LoginFails(c) \/ LoginSucceeds(c)
  \/ \E t \in Tokens, u \in TokenUsers, caps \in Grants, ttl \in Lifetimes :
       CreateAppToken(t, u, caps, ttl)
  \/ \E v \in Visitors :
       \/ RenderLogin(v)
       \/ completeLogout(v)
       \/ AskAgain(v)
       \/ handleBFFAction(v)
       \/ ActionRefused(v)
       \/ Answer(v)
       \/ \E credential \in Credentials :
            \/ \E scope \in ScreenScopes : renderAdminScreen(v, credential, scope)
            \/ requireBFFJSON(v, credential)
            \/ \E capability \in Needed : Authorize(v, credential, capability)
  \/ TimePasses

\* Time passes, whatever the visitors do.
BoundarySpec == BoundaryInit /\ [][BoundaryNext]_vars /\ WF_vars(TimePasses)
-----------------------------------------------------------------------------
(***************************************************************************)
(* Properties.                                                             *)
(***************************************************************************)
BoundaryInv == BoundaryTypeOK /\ AgesOrdered /\ FailuresBounded

\* A principal rests on a credential: the credential is there and names its user, who
\* is active, and it has no capability that its user, or the app token, lacks.
RestsOn(v, credential, p) ==
  /\ p.id \in Active
  /\ p.caps \subseteq principalForUser(p.id).caps
  /\ IF credential.by = "cookie"
       THEN cookie[v] # NoSession /\ cookie[v].user = p.id
       ELSE LET t == tokens[credential.prefix]
            IN  /\ t # NoToken /\ t.user = p.id
                /\ t.caps # {} => p.caps \subseteq t.caps

Unexpired(v, credential) ==
  IF credential.by = "cookie"
    THEN cookie[v].left >= 0
    ELSE tokens[credential.prefix].left >= 0

\* An admin action is executed only for one who passed the gate, with a form of the
\* last ten minutes; a REST request only by a credential that has not expired.
Covered(v) ==
  LET r == request'[v]
  IN  /\ r.capability \in r.principal.caps
      /\ RestsOn(v, r.credential, r.principal)
      /\ IF request[v] = NoRequest
           THEN Unexpired(v, r.credential)
           ELSE /\ "admin.access" \in principalForUser(r.principal.id).caps
                /\ form[v].action = ContentScope /\ form[v].left >= 0

Moves(v, pc) ==
  request'[v] # NoRequest /\ request'[v].pc = pc /\ request'[v] # request[v]

\* Whoever acts does so within the capabilities of an active user and by a credential
\* that still names that user.  It need not have lasted until now: when a body is slow
\* the session or token may run out before the action is executed, but it stood when
\* the principal was asked for the last time, after the gate.
ActsAreCovered ==
  [][\A v \in Visitors :
       /\ Moves(v, "executed") => Covered(v)
       /\ Moves(v, "reading") /\ request'[v].principal # Nobody =>
            Unexpired(v, request'[v].credential)]_vars
=============================================================================
