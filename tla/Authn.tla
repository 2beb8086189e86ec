--------------------------------- MODULE Authn ---------------------------------
(***************************************************************************)
(* The authentication service (internal/application/authn): passwords,     *)
(* the count of failed logins that locks an identifier, the built-in       *)
(* roles, and what a principal may do.                                     *)
(*                                                                         *)
(* AuthenticatePassword counts the recent failures of an identifier, spends *)
(* tens of milliseconds on the password, and only then records the outcome. *)
(* Logins run concurrently and share nothing but the list of attempts, so  *)
(* these are separate steps here.                                          *)
(*                                                                         *)
(* The list of attempts only ever grows; failures older than the window    *)
(* and successes count for nothing, so the model keeps the ages, oldest    *)
(* first, of the failures within the window and nothing else.              *)
(***************************************************************************)
EXTENDS Integers, Sequences, FiniteSets

CONSTANTS
  Clients,       \* those who log in, one request at a time each
  Identifiers,   \* what they log in under, trimmed and in lower case
  Users, NoUser,
  UserOf,        \* the user an identifier, an id or an address, stands for
  Active,        \* the users that are not switched off
  RolesOf,
  PasswordOf,
  NoLogin,
  FailureLimit,  \* the failures that lock an identifier: 3
  Window         \* how long a failure counts: 24 hours, in ticks of the clock

Secrets == {PasswordOf[u] : u \in Users}

ASSUME AuthnAssumption ==
  /\ IsFiniteSet(Clients)
  /\ NoUser \notin Users
  /\ UserOf \in [Identifiers -> Users \cup {NoUser}]
  /\ Active \subseteq Users
  /\ DOMAIN PasswordOf = Users
  /\ NoLogin \notin [identifier : Identifiers, secret : Secrets]
  /\ FailureLimit \in Nat \ {0}
  /\ Window \in Nat

VARIABLES
  failures,   \* for each identifier, the ages of its failures within the window
  login       \* the login each client has under way: counted, not yet recorded

authnVars == <<failures, login>>

Logins == [identifier : Identifiers, secret : Secrets]

TypeOK ==
  /\ failures \in [Identifiers -> Seq(0 .. Window)]
  /\ login \in [Clients -> Logins \cup {NoLogin}]
-----------------------------------------------------------------------------
(***************************************************************************)
(* Roles and principals.  Nobody is the empty principal of a request that  *)
(* is not authenticated.                                                   *)
(***************************************************************************)
Reads == {"admin.access", "content.read", "content.read_private"}
Edits == Reads \cup {"content.write", "media.upload", "media.edit", "taxonomies.assign"}

BuiltInRoles ==
  [viewer |-> Reads,
   editor |-> Edits,
   admin  |-> Edits \cup {"taxonomies.manage", "users.manage", "settings.manage"}]

Capabilities == BuiltInRoles["admin"]

Nobody == [id |-> NoUser, caps |-> {}]

\* A role that is not built in gives nothing.
principalForUser(u) ==
  [id |-> u, caps |-> UNION {BuiltInRoles[r] : r \in RolesOf[u] \cap DOMAIN BuiltInRoles}]

Principal(u) == IF u \in Active THEN principalForUser(u) ELSE Nobody
-----------------------------------------------------------------------------
RecentFailures(i) == Len(failures[i])

Locked(i) == RecentFailures(i) >= FailureLimit

Verify(secret, u) == secret = PasswordOf[u]

Matches(l) ==
  LET u == UserOf[l.identifier] IN u \in Active /\ Verify(l.secret, u)

Init ==
  /\ failures = [i \in Identifiers |-> <<>>]
  /\ login = [c \in Clients |-> NoLogin]

\* A login that finds its identifier locked is answered and recorded nowhere.
\* (So is one with a blank identifier or password, before anything is counted.)
Refuse(i) == Locked(i) /\ UNCHANGED authnVars

\* Mutant: the comparison with the limit is off by one.
AdmitAtLimit(c, i, secret) ==
  /\ login[c] = NoLogin
  /\ RecentFailures(i) <= FailureLimit
  /\ login' = [login EXCEPT ![c] = [identifier |-> i, secret |-> secret]]
  /\ UNCHANGED failures

\* The failures are counted: the login goes on to the password.
Admit(c, i, secret) ==
  /\ login[c] = NoLogin
  /\ ~Locked(i)
  /\ login' = [login EXCEPT ![c] = [identifier |-> i, secret |-> secret]]
  /\ UNCHANGED failures

Fail(c) ==
  /\ login[c] # NoLogin
  /\ ~Matches(login[c])
  /\ failures' = [failures EXCEPT ![login[c].identifier] = Append(@, 0)]
  /\ login' = [login EXCEPT ![c] = NoLogin]

Succeed(c) ==
  /\ login[c] # NoLogin
  /\ Matches(login[c])
  /\ login' = [login EXCEPT ![c] = NoLogin]
  /\ UNCHANGED failures

\* Mutant: failures are never too old to count.
AgedKeeping(ages) ==
  [k \in DOMAIN ages |-> IF ages[k] < Window THEN ages[k] + 1 ELSE ages[k]]

\* Ages grow from the newest to the oldest, so what leaves the window is a prefix.
Aged(ages) ==
  LET kept == Cardinality({k \in DOMAIN ages : ages[k] < Window})
  IN  [k \in 1 .. kept |-> ages[Len(ages) - kept + k] + 1]

Tick ==
  /\ failures' = [i \in Identifiers |-> Aged(failures[i])]
  /\ UNCHANGED login

Next ==
  \/ \E i \in Identifiers : Refuse(i)
  \/ \E c \in Clients, i \in Identifiers, secret \in Secrets : Admit(c, i, secret)
  \/ \E c \in Clients : Fail(c) \/ Succeed(c)
  \/ Tick

AuthnSpec == Init /\ [][Next]_authnVars
-----------------------------------------------------------------------------
UnderWay(i) == {c \in Clients : login[c] # NoLogin /\ login[c].identifier = i}

\* Logins under way have been let in before the failures of the others were
\* recorded.  Even so an identifier never collects more failures than the limit
\* and one for each further client: what is recorded and what may still be
\* recorded stay within the bound together.
FailuresBounded ==
  \A i \in Identifiers :
    RecentFailures(i) + Cardinality(UnderWay(i))
      <= FailureLimit - 1 + Cardinality(Clients)

\* The oldest failure comes first: the count of those within the window is exact.
AgesOrdered ==
  \A i \in Identifiers :
    \A j, k \in DOMAIN failures[i] : j <= k => failures[i][j] >= failures[i][k]

Inv == TypeOK /\ AgesOrdered /\ FailuresBounded

\* A locked identifier is let in again once time has passed, however often its
\* user keeps trying: a login that is refused does not count as a failure.
LockEnds == \A i \in Identifiers : Locked(i) ~> ~Locked(i)
=============================================================================
