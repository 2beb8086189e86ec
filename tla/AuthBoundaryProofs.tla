--------------------------- MODULE AuthBoundaryProofs ---------------------------
(***************************************************************************)
(* Proofs about the authentication service and about the boundary of the   *)
(* host: the bound on the failures of an identifier, for any number of     *)
(* clients, any limit and any window; the boundary runs the service by its *)
(* rules, so that the bound holds there; and it executes nothing that the  *)
(* request's credential does not cover.                                    *)
(***************************************************************************)
EXTENDS AuthBoundary, FiniteSetTheorems, TLAPS

(***************************************************************************)
(* The service.                                                            *)
(***************************************************************************)
Ordered(ages) == \A j, k \in DOMAIN ages : j <= k => ages[j] >= ages[k]

\* What has aged is as long as the failures that stay within the window, is not
\* longer than it was, and holds ages within the window, the oldest first.
LEMMA AgedLemma ==
  ASSUME NEW ages \in Seq(0 .. Window), Ordered(ages), Window \in Nat
  PROVE  /\ Aged(ages) \in Seq(0 .. Window)
         /\ Ordered(Aged(ages))
         /\ Len(Aged(ages)) <= Len(ages)
<1> DEFINE len == Len(ages)
           fresh == {k \in 1 .. len : ages[k] < Window}
           kept == Cardinality(fresh)
<1>1. len \in Nat /\ DOMAIN ages = 1 .. len /\ \A k \in 1 .. len : ages[k] \in 0 .. Window
  OBVIOUS
<1>2. IsFiniteSet(1 .. len) /\ Cardinality(1 .. len) = len
  <2> HIDE DEF len
  <2>1. Cardinality(1 .. len) = IF 1 > len THEN 0 ELSE len - 1 + 1
    BY <1>1, FS_Interval
  <2> QED BY <2>1, <1>1, FS_Interval
<1>3. kept \in Nat /\ kept <= len /\ IsFiniteSet(fresh)
  <2>1. fresh \subseteq 1 .. len
    OBVIOUS
  <2> QED BY <2>1, <1>2, FS_Subset, FS_CardinalityType
<1>4. \A k \in len - kept + 1 .. len : ages[k] < Window
  <2> SUFFICES ASSUME NEW k \in len - kept + 1 .. len, ~(ages[k] < Window) PROVE FALSE
    OBVIOUS
  <2>1. k \in 1 .. len
    BY <1>1, <1>3
  <2>2. fresh \subseteq k + 1 .. len
    <3> SUFFICES ASSUME NEW j \in fresh, ~(j \in k + 1 .. len) PROVE FALSE
      OBVIOUS
    <3>1. j \in 1 .. len /\ j <= k /\ ages[j] < Window
      BY <1>1, <2>1
    <3>2. ages[j] >= ages[k]
      BY <3>1, <2>1, <1>1 DEF Ordered
    <3> QED BY <3>1, <3>2, <1>1, <2>1
  <2>3. IsFiniteSet(k + 1 .. len) /\ Cardinality(k + 1 .. len) = IF k + 1 > len THEN 0 ELSE len - k
    <3> HIDE DEF len
    <3>1. k + 1 \in Int /\ len \in Int
      BY <2>1, <1>1
    <3>2. Cardinality(k + 1 .. len) = IF k + 1 > len THEN 0 ELSE len - (k + 1) + 1
      BY <3>1, FS_Interval
    <3> QED BY <3>1, <3>2, <2>1, FS_Interval
  <2>4. kept <= Cardinality(k + 1 .. len)
    BY <2>2, <2>3, FS_Subset
  <2> QED BY <2>1, <2>3, <2>4, <1>1, <1>3
<1> HIDE DEF len, fresh, kept
<1>5. Aged(ages) = [k \in 1 .. kept |-> ages[len - kept + k] + 1]
  BY <1>1 DEF Aged, kept, fresh, len
<1>6. \A k \in 1 .. kept : len - kept + k \in len - kept + 1 .. len /\ len - kept + k \in 1 .. len
  BY <1>1, <1>3
<1>7. \A k \in 1 .. kept : ages[len - kept + k] + 1 \in 0 .. Window
  BY <1>1, <1>4, <1>6
<1>8. Aged(ages) \in Seq(0 .. Window) /\ Len(Aged(ages)) = kept
  BY <1>5, <1>7, <1>3
<1>9. Ordered(Aged(ages))
  <2> SUFFICES ASSUME NEW j \in 1 .. kept, NEW k \in 1 .. kept, j <= k
               PROVE  ages[len - kept + j] + 1 >= ages[len - kept + k] + 1
    BY <1>5 DEF Ordered
  <2>1. ages[len - kept + j] >= ages[len - kept + k]
    BY <1>1, <1>3, <1>6 DEF Ordered
  <2> QED BY <2>1, <1>1, <1>6
<1> QED BY <1>3, <1>8, <1>9 DEF len

\* A failure is the newest: the order is kept.
LEMMA AppendLemma ==
  ASSUME NEW ages \in Seq(0 .. Window), Ordered(ages), Window \in Nat
  PROVE  /\ Append(ages, 0) \in Seq(0 .. Window)
         /\ Ordered(Append(ages, 0))
         /\ Len(Append(ages, 0)) = Len(ages) + 1
<1>1. Append(ages, 0) \in Seq(0 .. Window) /\ Len(Append(ages, 0)) = Len(ages) + 1
  OBVIOUS
<1>2. \A k \in 1 .. Len(ages) : Append(ages, 0)[k] = ages[k]
  OBVIOUS
<1>3. Append(ages, 0)[Len(ages) + 1] = 0
  OBVIOUS
<1>4. \A k \in 1 .. Len(ages) : ages[k] \in 0 .. Window
  OBVIOUS
<1>5. Ordered(Append(ages, 0))
  <2> SUFFICES ASSUME NEW j \in 1 .. Len(ages) + 1, NEW k \in 1 .. Len(ages) + 1, j <= k
               PROVE  Append(ages, 0)[j] >= Append(ages, 0)[k]
    BY <1>1 DEF Ordered
  <2>1. CASE k = Len(ages) + 1
    <3>1. Append(ages, 0)[j] \in 0 .. Window
      BY <1>1
    <3> QED BY <2>1, <3>1, <1>3
  <2>2. CASE k # Len(ages) + 1
    <3>1. j \in 1 .. Len(ages) /\ k \in 1 .. Len(ages)
      BY <2>2
    <3> QED BY <3>1, <1>2 DEF Ordered
  <2> QED BY <2>1, <2>2
<1> QED BY <1>1, <1>5
-----------------------------------------------------------------------------
\* The logins under way for an identifier are finitely many, at most one per client.
LEMMA UnderWayFinite ==
  ASSUME NEW i
  PROVE  /\ IsFiniteSet(UnderWay(i))
         /\ Cardinality(UnderWay(i)) \in Nat
         /\ Cardinality(UnderWay(i)) <= Cardinality(Clients)
<1>1. UnderWay(i) \subseteq Clients
  BY DEF UnderWay
<1> QED BY <1>1, AuthnAssumption, FS_Subset, FS_CardinalityType

\* The same after a step.
LEMMA UnderWayFiniteAfter ==
  ASSUME NEW i
  PROVE  /\ IsFiniteSet(UnderWay(i)')
         /\ Cardinality(UnderWay(i)') \in Nat
         /\ Cardinality(UnderWay(i)') <= Cardinality(Clients)
<1>1. UnderWay(i)' \subseteq Clients
  BY DEF UnderWay
<1> QED BY <1>1, AuthnAssumption, FS_Subset, FS_CardinalityType

\* A login that ends makes the logins under way for its identifier one fewer and
\* leaves those for the others alone.
LEMMA EndsLogin ==
  ASSUME TypeOK, NEW c \in Clients, login[c] # NoLogin,
         login' = [login EXCEPT ![c] = NoLogin], NEW i \in Identifiers
  PROVE  Cardinality(UnderWay(i)') =
           Cardinality(UnderWay(i)) - (IF login[c].identifier = i THEN 1 ELSE 0)
<1>1. DOMAIN login = Clients
  BY DEF TypeOK
<1>2. CASE login[c].identifier = i
  <2>1. UnderWay(i)' = UnderWay(i) \ {c} /\ c \in UnderWay(i)
    BY <1>1, <1>2 DEF UnderWay
  <2> QED BY <2>1, <1>2, UnderWayFinite, FS_RemoveElement
<1>3. CASE login[c].identifier # i
  <2>1. UnderWay(i)' = UnderWay(i)
    BY <1>1, <1>3 DEF UnderWay
  <2> QED BY <2>1, <1>3, UnderWayFinite
<1> QED BY <1>2, <1>3
-----------------------------------------------------------------------------
\* The initial states satisfy the invariant.
LEMMA InitInv == Init => Inv
<1> SUFFICES ASSUME Init PROVE Inv
  OBVIOUS
<1>1. TypeOK
  BY AuthnAssumption DEF Init, TypeOK
<1>2. AgesOrdered
  BY DEF Init, AgesOrdered
<1>3. FailuresBounded
  <2> SUFFICES ASSUME NEW i \in Identifiers
               PROVE  RecentFailures(i) + Cardinality(UnderWay(i))
                        <= FailureLimit - 1 + Cardinality(Clients)
    BY DEF FailuresBounded
  <2>1. RecentFailures(i) = 0
    BY DEF Init, RecentFailures
  <2>2. UnderWay(i) = {}
    BY DEF Init, UnderWay
  <2>3. Cardinality(UnderWay(i)) = 0
    BY <2>2, FS_EmptySet
  <2>4. Cardinality(Clients) \in Nat
    BY AuthnAssumption, FS_CardinalityType
  <2> QED BY <2>1, <2>3, <2>4, AuthnAssumption
<1> QED BY <1>1, <1>2, <1>3 DEF Inv

\* Every step keeps the type and the order of the failures.
LEMMA NextTypeOK ==
  ASSUME TypeOK, AgesOrdered, [Next]_authnVars
  PROVE  TypeOK' /\ AgesOrdered'
<1>1. \A i \in Identifiers : failures[i] \in Seq(0 .. Window) /\ Ordered(failures[i])
  BY DEF TypeOK, AgesOrdered, Ordered
<1>2. ASSUME NEW c \in Clients, NEW i \in Identifiers, NEW secret \in Secrets, Admit(c, i, secret)
      PROVE  TypeOK' /\ AgesOrdered'
  <2>1. [identifier |-> i, secret |-> secret] \in Logins
    BY DEF Logins
  <2> QED BY <1>2, <2>1 DEF Admit, TypeOK, AgesOrdered
<1>3. ASSUME NEW c \in Clients, Fail(c)
      PROVE  TypeOK' /\ AgesOrdered'
  <2> DEFINE i == login[c].identifier
  <2>1. i \in Identifiers
    BY <1>3 DEF Fail, TypeOK, Logins
  <2>2. Append(failures[i], 0) \in Seq(0 .. Window) /\ Ordered(Append(failures[i], 0))
    BY <1>1, <2>1, AppendLemma, AuthnAssumption
  <2>3. \A x \in Identifiers :
          failures'[x] = IF x = i THEN Append(failures[i], 0) ELSE failures[x]
    BY <1>3 DEF Fail, TypeOK
  <2>4. DOMAIN failures' = Identifiers /\ failures' = [x \in Identifiers |-> failures'[x]]
    BY <1>3 DEF Fail, TypeOK
  <2> HIDE DEF i
  <2>5. \A x \in Identifiers : failures'[x] \in Seq(0 .. Window) /\ Ordered(failures'[x])
    BY <1>1, <2>2, <2>3
  <2>6. failures' \in [Identifiers -> Seq(0 .. Window)]
    BY <2>4, <2>5
  <2>7. login' \in [Clients -> Logins \cup {NoLogin}]
    BY <1>3 DEF Fail, TypeOK
  <2> QED BY <2>5, <2>6, <2>7 DEF TypeOK, AgesOrdered, Ordered
<1>4. ASSUME NEW c \in Clients, Succeed(c)
      PROVE  TypeOK' /\ AgesOrdered'
  BY <1>4 DEF Succeed, TypeOK, AgesOrdered
<1>5. ASSUME Tick
      PROVE  TypeOK' /\ AgesOrdered'
  <2>1. \A x \in Identifiers :
          failures'[x] \in Seq(0 .. Window) /\ Ordered(failures'[x])
    BY <1>1, <1>5, AgedLemma, AuthnAssumption DEF Tick
  <2>2. failures' \in [Identifiers -> Seq(0 .. Window)]
    BY <1>5, <2>1 DEF Tick
  <2> QED BY <1>5, <2>1, <2>2 DEF Tick, TypeOK, AgesOrdered, Ordered
<1>6. ASSUME UNCHANGED authnVars
      PROVE  TypeOK' /\ AgesOrdered'
  BY <1>6 DEF authnVars, TypeOK, AgesOrdered
<1> QED BY <1>2, <1>3, <1>4, <1>5, <1>6 DEF Next, Refuse

\* Every step keeps the bound: only a login let in below the limit adds to the
\* logins under way, and a failure that is recorded is one of them no more.
LEMMA NextBounded ==
  ASSUME Inv, [Next]_authnVars
  PROVE  FailuresBounded'
<1> SUFFICES ASSUME NEW i \in Identifiers
             PROVE  RecentFailures(i)' + Cardinality(UnderWay(i)')
                      <= FailureLimit - 1 + Cardinality(Clients)
  BY DEF FailuresBounded
<1>1. /\ TypeOK /\ AgesOrdered
      /\ RecentFailures(i) + Cardinality(UnderWay(i)) <= FailureLimit - 1 + Cardinality(Clients)
  BY DEF Inv, FailuresBounded
<1>2. /\ RecentFailures(i) \in Nat
      /\ Cardinality(Clients) \in Nat /\ FailureLimit \in Nat \ {0}
      /\ failures[i] \in Seq(0 .. Window) /\ Ordered(failures[i])
  BY <1>1, AuthnAssumption, FS_CardinalityType DEF TypeOK, RecentFailures, AgesOrdered, Ordered
<1>3. /\ Cardinality(UnderWay(i)) \in Nat
      /\ Cardinality(UnderWay(i)') \in Nat
      /\ Cardinality(UnderWay(i)') <= Cardinality(Clients)
  BY UnderWayFinite, UnderWayFiniteAfter
<1>4. ASSUME NEW c \in Clients, NEW j \in Identifiers, NEW secret \in Secrets, Admit(c, j, secret)
      PROVE  RecentFailures(i)' + Cardinality(UnderWay(i)') <= FailureLimit - 1 + Cardinality(Clients)
  <2>1. RecentFailures(i)' = RecentFailures(i)
    BY <1>4 DEF Admit, RecentFailures
  <2>2. CASE i = j
    <3>1. RecentFailures(i) < FailureLimit
      BY <1>2, <1>4, <2>2 DEF Admit, Locked
    <3> QED BY <2>1, <3>1, <1>2, <1>3
  <2>3. CASE i # j
    <3>1. UnderWay(i)' = UnderWay(i)
      BY <1>1, <1>4, <2>3, AuthnAssumption DEF Admit, UnderWay, TypeOK
    <3> QED BY <2>1, <3>1, <1>1
  <2> QED BY <2>2, <2>3
<1>5. ASSUME NEW c \in Clients, Fail(c)
      PROVE  RecentFailures(i)' + Cardinality(UnderWay(i)') <= FailureLimit - 1 + Cardinality(Clients)
  <2>1. RecentFailures(i)' = RecentFailures(i) + (IF login[c].identifier = i THEN 1 ELSE 0)
    BY <1>1, <1>2, <1>5, AppendLemma, AuthnAssumption DEF Fail, RecentFailures, TypeOK
  <2>2. Cardinality(UnderWay(i)') =
          Cardinality(UnderWay(i)) - (IF login[c].identifier = i THEN 1 ELSE 0)
    BY <1>1, <1>5, EndsLogin DEF Fail
  <2> QED BY <2>1, <2>2, <1>1, <1>2, <1>3
<1>6. ASSUME NEW c \in Clients, Succeed(c)
      PROVE  RecentFailures(i)' + Cardinality(UnderWay(i)') <= FailureLimit - 1 + Cardinality(Clients)
  <2>1. RecentFailures(i)' = RecentFailures(i)
    BY <1>6 DEF Succeed, RecentFailures
  <2>2. Cardinality(UnderWay(i)') =
          Cardinality(UnderWay(i)) - (IF login[c].identifier = i THEN 1 ELSE 0)
    BY <1>1, <1>6, EndsLogin DEF Succeed
  <2> QED BY <2>1, <2>2, <1>1, <1>2, <1>3
<1>7. ASSUME Tick
      PROVE  RecentFailures(i)' + Cardinality(UnderWay(i)') <= FailureLimit - 1 + Cardinality(Clients)
  <2>1. failures'[i] = Aged(failures[i])
    BY <1>7 DEF Tick
  <2>2. RecentFailures(i)' \in Nat /\ RecentFailures(i)' <= RecentFailures(i)
    BY <2>1, <1>2, AgedLemma, AuthnAssumption DEF RecentFailures
  <2>3. UnderWay(i)' = UnderWay(i)
    BY <1>7 DEF Tick, UnderWay
  <2> QED BY <2>2, <2>3, <1>1, <1>2, <1>3
<1>8. ASSUME UNCHANGED authnVars
      PROVE  RecentFailures(i)' + Cardinality(UnderWay(i)') <= FailureLimit - 1 + Cardinality(Clients)
  <2>1. RecentFailures(i)' = RecentFailures(i) /\ UnderWay(i)' = UnderWay(i)
    BY <1>8 DEF authnVars, RecentFailures, UnderWay
  <2> QED BY <2>1, <1>1
<1> QED BY <1>4, <1>5, <1>6, <1>7, <1>8 DEF Next, Refuse

\* Type, order and bound hold in every state of the service.
THEOREM InvHolds == AuthnSpec => []Inv
<1>1. Inv /\ [Next]_authnVars => Inv'
  BY NextTypeOK, NextBounded DEF Inv
<1> QED BY <1>1, InitInv, PTL DEF AuthnSpec

\* However many logins are under way at once, an identifier never has more recent
\* failures than the limit, and one for each client but the one that reached it.
THEOREM FailuresBoundedHolds == AuthnSpec => []FailuresBounded
<1>1. Inv => FailuresBounded
  BY DEF Inv
<1> QED BY <1>1, InvHolds, PTL
-----------------------------------------------------------------------------
(***************************************************************************)
(* The boundary.                                                           *)
(***************************************************************************)
\* Every step of the boundary is a step of the service or leaves it alone.
LEMMA StepRunsAuthn == [BoundaryNext]_vars => [Next]_authnVars
<1> SUFFICES ASSUME [BoundaryNext]_vars PROVE [Next]_authnVars
  OBVIOUS
<1>1. ASSUME NEW i \in Identifiers, LoginRefused(i) PROVE [Next]_authnVars
  BY <1>1 DEF LoginRefused, Refuse
<1>2. ASSUME NEW c \in Clients, NEW i \in Identifiers, NEW secret \in Secrets, PostLogin(c, i, secret)
      PROVE [Next]_authnVars
  BY <1>2 DEF PostLogin, Next
<1>3. ASSUME NEW c \in Clients, LoginFails(c) \/ LoginSucceeds(c) PROVE [Next]_authnVars
  BY <1>3 DEF LoginFails, LoginSucceeds, Next
<1>4. ASSUME TimePasses PROVE [Next]_authnVars
  BY <1>4 DEF TimePasses, Next
<1>5. ASSUME NEW t \in Tokens, NEW u \in TokenUsers, NEW caps \in Grants, NEW ttl \in Lifetimes,
             CreateAppToken(t, u, caps, ttl)
      PROVE [Next]_authnVars
  BY <1>5 DEF CreateAppToken
<1>6. ASSUME NEW v \in Visitors,
             \/ RenderLogin(v) \/ completeLogout(v) \/ AskAgain(v) \/ handleBFFAction(v)
             \/ ActionRefused(v) \/ Answer(v)
      PROVE [Next]_authnVars
  BY <1>6 DEF RenderLogin, completeLogout, AskAgain, handleBFFAction, ActionRefused, Answer
<1>7. ASSUME NEW v \in Visitors, NEW credential \in Credentials,
             \/ \E scope \in ScreenScopes : renderAdminScreen(v, credential, scope)
             \/ requireBFFJSON(v, credential)
             \/ \E capability \in Needed : Authorize(v, credential, capability)
      PROVE [Next]_authnVars
  BY <1>7 DEF renderAdminScreen, requireBFFJSON, Authorize
<1>8. ASSUME UNCHANGED vars PROVE [Next]_authnVars
  BY <1>8 DEF vars
<1> QED BY <1>1, <1>2, <1>3, <1>4, <1>5, <1>6, <1>7, <1>8 DEF BoundaryNext

\* The boundary counts, admits and records logins as the service does.
THEOREM BoundaryRunsAuthn == BoundarySpec => AuthnSpec
<1>1. BoundaryInit => Init
  BY DEF BoundaryInit
<1> QED BY <1>1, StepRunsAuthn, PTL DEF BoundarySpec, AuthnSpec
-----------------------------------------------------------------------------
(***************************************************************************)
(* The invariant behind ActsAreCovered.  While a request is under way its  *)
(* visitor neither logs in nor out, and tokens are never issued anew, so   *)
(* whom the credential names when the principal is asked for again is whom *)
(* it named at the gate, and it names him still when the body is there.    *)
(***************************************************************************)
Kept ==
  /\ cookie \in [Visitors -> Sessions \cup {NoSession}]
  /\ form \in [Visitors -> Forms \cup {NoForm}]
  /\ tokens \in [Tokens -> AppTokens \cup {NoToken}]
  /\ request \in [Visitors -> Requests \cup {NoRequest}]
  /\ login \in [Clients -> Logins \cup {NoLogin}]

\* What is known of a request under way.
Holds(v, r) ==
  /\ r.principal # Nobody => RestsOn(v, r.credential, r.principal)
  /\ r.pc = "gated" => r.principal # Nobody
  /\ r.pc \in {"gated", "reading"} /\ r.principal # Nobody =>
       "admin.access" \in principalForUser(r.principal.id).caps

Stands(v) == request[v] # NoRequest => login[v] = NoLogin /\ Holds(v, request[v])

GateInv == Kept /\ \A v \in Visitors : Stands(v)

\* The principal of an active user is somebody, with the capabilities of the user.
LEMMA PrincipalLemma ==
  ASSUME NEW u \in Users, Principal(u) # Nobody
  PROVE  u \in Active /\ Principal(u) = principalForUser(u) /\ Principal(u).id = u
BY DEF Principal, principalForUser

\* To be somebody, a request must carry a credential that stands.
LEMMA SomebodyLemma ==
  ASSUME Kept, NEW v \in Visitors, NEW credential \in Credentials,
         principalFromRequest(v, credential) # Nobody
  PROVE  /\ RestsOn(v, credential, principalFromRequest(v, credential))
         /\ Unexpired(v, credential)
<1> DEFINE p == principalFromRequest(v, credential)
<1>1. CASE credential.by = "cookie"
  <2> DEFINE s == cookie[v]
  <2>1. p = FromSession(s)
    BY <1>1 DEF principalFromRequest
  <2>2. s \in Sessions \cup {NoSession}
    BY DEF Kept
  <2>3. s # NoSession /\ s.left # Expired /\ p = Principal(s.user)
    BY <2>1 DEF FromSession
  <2>4. s.user \in Users /\ s.left >= 0
    BY <2>2, <2>3 DEF Sessions, Left, Expired
  <2>5. s.user \in Active /\ p = principalForUser(s.user) /\ p.id = s.user
    BY <2>3, <2>4, PrincipalLemma
  <2> QED BY <1>1, <2>3, <2>4, <2>5 DEF RestsOn, Unexpired
<1>2. CASE credential.by # "cookie"
  <2>1. credential.prefix \in Tokens
    BY <1>2 DEF Credentials
  <2> DEFINE t == tokens[credential.prefix]
  <2>2. p = AuthenticateAppToken(credential.prefix, credential.genuine)
    BY <1>2 DEF principalFromRequest
  <2>3. t \in AppTokens \cup {NoToken}
    BY <2>1 DEF Kept
  <2>4. t # NoToken /\ t.left # Expired /\ p = Narrowed(Principal(t.user), t.caps)
    BY <2>2 DEF AuthenticateAppToken
  <2>5. t.user \in Users /\ t.left >= 0
    BY <2>3, <2>4 DEF AppTokens, Left, Expired
  <2>6. Principal(t.user) # Nobody
    BY <2>4 DEF Narrowed
  <2> DEFINE q == principalForUser(t.user)
  <2>7. t.user \in Active /\ Principal(t.user) = q /\ q.id = t.user
    BY <2>5, <2>6, PrincipalLemma
  <2>8. p = IF t.caps = {} THEN q ELSE [q EXCEPT !.caps = @ \cap t.caps]
    BY <2>4, <2>6, <2>7 DEF Narrowed
  <2>9. /\ p.id = t.user /\ p.caps \subseteq q.caps
        /\ t.caps # {} => p.caps \subseteq t.caps
    BY <2>7, <2>8 DEF principalForUser
  <2> QED BY <1>2, <2>4, <2>5, <2>7, <2>9 DEF RestsOn, Unexpired
<1> QED BY <1>1, <1>2

-----------------------------------------------------------------------------
\* At the start nothing is under way.
LEMMA InitGate == BoundaryInit => GateInv
<1> SUFFICES ASSUME BoundaryInit PROVE GateInv
  OBVIOUS
<1>1. Kept
  BY DEF BoundaryInit, Init, Kept
<1>2. \A v \in Visitors : Stands(v)
  BY DEF BoundaryInit, Stands
<1> QED BY <1>1, <1>2 DEF GateInv

\* Whoever a request comes from is a principal.
LEMMA PrincipalsLemma ==
  ASSUME Kept, NEW v \in Visitors, NEW credential \in Credentials
  PROVE  principalFromRequest(v, credential) \in Principals
<1>1. Nobody \in Principals
  BY DEF Nobody, Principals
<1>2. ASSUME NEW u \in Users PROVE Principal(u) \in Principals
  <2>1. \A r \in DOMAIN BuiltInRoles : BuiltInRoles[r] \subseteq Capabilities
    BY DEF BuiltInRoles, Capabilities, Edits
  <2> DEFINE caps == UNION {BuiltInRoles[r] : r \in RolesOf[u] \cap DOMAIN BuiltInRoles}
  <2>2. caps \subseteq Capabilities
    BY <2>1
  <2>3. principalForUser(u) = [id |-> u, caps |-> caps]
    BY DEF principalForUser
  <2> HIDE DEF caps
  <2>4. principalForUser(u) \in Principals
    BY <2>2, <2>3 DEF Principals
  <2> QED BY <1>1, <2>4 DEF Principal
<1>3. ASSUME NEW p \in Principals, NEW caps PROVE Narrowed(p, caps) \in Principals
  BY <1>3 DEF Narrowed, Principals
<1>4. CASE credential.by = "cookie"
  <2>1. cookie[v] \in Sessions \cup {NoSession}
    BY DEF Kept
  <2>2. principalFromRequest(v, credential) = FromSession(cookie[v])
    BY <1>4 DEF principalFromRequest
  <2> QED BY <1>1, <1>2, <2>1, <2>2 DEF FromSession, Sessions
<1>5. CASE credential.by # "cookie"
  <2>1. credential.prefix \in Tokens
    BY <1>5 DEF Credentials
  <2>2. tokens[credential.prefix] \in AppTokens \cup {NoToken}
    BY <2>1 DEF Kept
  <2>3. principalFromRequest(v, credential)
          = AuthenticateAppToken(credential.prefix, credential.genuine)
    BY <1>5 DEF principalFromRequest
  <2> QED BY <1>1, <1>2, <1>3, <2>2, <2>3 DEF AuthenticateAppToken, AppTokens
<1> QED BY <1>4, <1>5

\* A request that is sent is a request.
LEMMA SentLemma ==
  ASSUME NEW credential \in Credentials, NEW pc \in {"gated", "reading", "executed"},
         NEW p \in Principals, NEW capability \in Capabilities
  PROVE  Sent(credential, pc, p, capability) \in Requests
BY DEF Sent, Requests

\* What a tick of the clock leaves of a lifetime is a lifetime.
LEMMA LessLeftLemma == \A left \in Left : LessLeft(left) \in Left
  BY DEF LessLeft, Left, Expired

SameToken(s, t) == s.user = t.user /\ s.caps = t.caps

\* Time takes from the lifetimes and changes neither whose sessions and tokens
\* these are nor that they are there.
LEMMA TickKeeps ==
  ASSUME Kept, TimePasses
  PROVE  /\ Kept'
         /\ \A v \in Visitors : cookie[v] # NoSession =>
              cookie'[v] # NoSession /\ cookie'[v].user = cookie[v].user
         /\ \A t \in Tokens : tokens[t] # NoToken =>
              tokens'[t] # NoToken /\ SameToken(tokens'[t], tokens[t])
<1>1. ASSUME NEW v \in Visitors
      PROVE  /\ cookie'[v] \in Sessions \cup {NoSession}
             /\ cookie[v] # NoSession =>
                  cookie'[v] # NoSession /\ cookie'[v].user = cookie[v].user
             /\ form'[v] \in Forms \cup {NoForm}
  <2>1. /\ cookie[v] \in Sessions \cup {NoSession}
        /\ cookie'[v] = IF cookie[v] = NoSession THEN NoSession
                          ELSE [cookie[v] EXCEPT !.left = LessLeft(@)]
    BY DEF TimePasses, Older, Kept
  <2>2. ASSUME cookie[v] \in Sessions, cookie[v] # NoSession
        PROVE  cookie'[v] \in Sessions /\ cookie'[v].user = cookie[v].user
    BY <2>1, <2>2, LessLeftLemma DEF Sessions
  <2>3. /\ form[v] \in Forms \cup {NoForm}
        /\ form'[v] = IF form[v] = NoForm THEN NoForm
                        ELSE [form[v] EXCEPT !.left = LessLeft(@)]
    BY DEF TimePasses, Older, Kept
  <2>4. ASSUME form[v] \in Forms, form[v] # NoForm
        PROVE  form'[v] \in Forms
    BY <2>3, <2>4, LessLeftLemma DEF Forms
  <2> QED BY <2>1, <2>2, <2>3, <2>4, BoundaryAssumption
<1>2. ASSUME NEW t \in Tokens
      PROVE  /\ tokens'[t] \in AppTokens \cup {NoToken}
             /\ tokens[t] # NoToken =>
                  tokens'[t] # NoToken /\ SameToken(tokens'[t], tokens[t])
  <2>1. /\ tokens[t] \in AppTokens \cup {NoToken}
        /\ tokens'[t] = IF tokens[t] = NoToken THEN NoToken
                          ELSE [tokens[t] EXCEPT !.left = LessLeft(@)]
    BY DEF TimePasses, Older, Kept
  <2>2. ASSUME tokens[t] \in AppTokens, tokens[t] # NoToken
        PROVE  tokens'[t] \in AppTokens /\ SameToken(tokens'[t], tokens[t])
    BY <2>1, <2>2, LessLeftLemma DEF AppTokens, SameToken
  <2> QED BY <2>1, <2>2, BoundaryAssumption
<1>3. /\ cookie' = [x \in Visitors |-> cookie'[x]]
      /\ form' = [x \in Visitors |-> form'[x]]
      /\ tokens' = [x \in Tokens |-> tokens'[x]]
  BY DEF TimePasses, Older, Kept
<1>4. request' = request /\ login' = login
  BY DEF TimePasses, Tick
<1>5. /\ cookie' \in [Visitors -> Sessions \cup {NoSession}]
      /\ form' \in [Visitors -> Forms \cup {NoForm}]
      /\ tokens' \in [Tokens -> AppTokens \cup {NoToken}]
  BY <1>1, <1>2, <1>3
<1>6. Kept'
  BY <1>4, <1>5 DEF Kept
<1> QED BY <1>1, <1>2, <1>6

\* A step that leaves cookies, tokens, logins and requests alone keeps what stands.
LEMMA StandsFrame ==
  ASSUME GateInv, UNCHANGED <<login, cookie, tokens, request>>
  PROVE  \A v \in Visitors : Stands(v)'
BY DEF GateInv, Stands, Holds, RestsOn

\* A request that is sent, or moves on, stands if what it says holds.
LEMMA SentStands ==
  ASSUME GateInv, NEW v \in Visitors, NEW r \in Requests, Holds(v, r), login[v] = NoLogin,
         request' = [request EXCEPT ![v] = r],
         UNCHANGED <<login, cookie, form, tokens>>
  PROVE  GateInv'
<1>1. Kept /\ \A w \in Visitors : Stands(w)
  BY DEF GateInv
<1>2. Kept'
  BY <1>1 DEF Kept
<1>3. request'[v] = r
  BY <1>1 DEF Kept
<1>4. Stands(v)'
  BY <1>3 DEF Stands, Holds, RestsOn
<1>5. ASSUME NEW w \in Visitors, w # v PROVE Stands(w)'
  <2>1. request'[w] = request[w]
    BY <1>1, <1>5 DEF Kept
  <2> QED BY <1>1, <2>1 DEF Stands, Holds, RestsOn
<1> QED BY <1>2, <1>4, <1>5 DEF GateInv

\* A request that is answered or refused is gone.
LEMMA ForgottenStands ==
  ASSUME GateInv, NEW v \in Visitors,
         request' = [request EXCEPT ![v] = NoRequest],
         UNCHANGED <<login, cookie, form, tokens>>
  PROVE  GateInv'
<1>1. Kept /\ \A w \in Visitors : Stands(w)
  BY DEF GateInv
<1>2. Kept'
  BY <1>1 DEF Kept
<1>3. ASSUME NEW w \in Visitors PROVE Stands(w)'
  <2>1. request'[w] = NoRequest \/ request'[w] = request[w]
    BY <1>1 DEF Kept
  <2> QED BY <1>1, <2>1 DEF Stands, Holds, RestsOn
<1> QED BY <1>2, <1>3 DEF GateInv

\* A visitor with no request under way may change its login, cookie and form.
LEMMA FreeVisitorStands ==
  ASSUME GateInv, Kept', NEW c \in Clients, c \in Visitors => request[c] = NoRequest,
         \A x \in Clients : x # c => login'[x] = login[x],
         \A x \in Visitors : x # c => cookie'[x] = cookie[x],
         UNCHANGED <<tokens, request>>
  PROVE  GateInv'
<1>1. Kept /\ \A w \in Visitors : Stands(w)
  BY DEF GateInv
<1>2. ASSUME NEW w \in Visitors PROVE Stands(w)'
  <2>1. CASE w = c
    BY <2>1 DEF Stands
  <2>2. CASE w # c
    <3>1. login'[w] = login[w] /\ cookie'[w] = cookie[w]
      BY <2>2, BoundaryAssumption
    <3> QED BY <1>1, <3>1 DEF Stands, Holds, RestsOn
  <2> QED BY <2>1, <2>2
<1> QED BY <1>2 DEF GateInv

\* Every step of the boundary keeps the invariant.
LEMMA GateStep ==
  ASSUME GateInv, [BoundaryNext]_vars
  PROVE  GateInv'
<1> USE BoundaryAssumption
<1>1. Kept /\ \A v \in Visitors : Stands(v)
  BY DEF GateInv
<1>2. ASSUME NEW i \in Identifiers, LoginRefused(i) PROVE GateInv'
  BY <1>2, StandsFrame DEF LoginRefused, Refuse, authnVars, boundaryVars, GateInv, Kept
<1>3. ASSUME NEW c \in Clients, NEW i \in Identifiers, NEW secret \in Secrets, PostLogin(c, i, secret)
      PROVE  GateInv'
  <2>1. /\ login' = [login EXCEPT ![c] = [identifier |-> i, secret |-> secret]]
        /\ UNCHANGED <<cookie, form, tokens, request>>
        /\ c \in Visitors => request[c] = NoRequest
    BY <1>3 DEF PostLogin, Admit, Free, boundaryVars
  <2>2. Kept'
    BY <1>1, <2>1 DEF Kept, Logins
  <2> QED BY <1>1, <2>1, <2>2, FreeVisitorStands DEF Kept
<1>4. ASSUME NEW c \in Clients, LoginFails(c) PROVE GateInv'
  <2>1. /\ login[c] # NoLogin /\ login' = [login EXCEPT ![c] = NoLogin]
        /\ UNCHANGED <<cookie, form, tokens, request>>
    BY <1>4 DEF LoginFails, Fail, boundaryVars
  <2>2. c \in Visitors => request[c] = NoRequest
    BY <1>1, <2>1 DEF Stands
  <2>3. Kept'
    BY <1>1, <2>1 DEF Kept
  <2> QED BY <1>1, <2>1, <2>2, <2>3, FreeVisitorStands DEF Kept
<1>5. ASSUME NEW c \in Clients, LoginSucceeds(c) PROVE GateInv'
  <2>1. /\ login[c] # NoLogin /\ login' = [login EXCEPT ![c] = NoLogin]
        /\ UNCHANGED <<form, tokens, request>>
        /\ Matches(login[c])
    BY <1>5 DEF LoginSucceeds, Succeed
  <2>2. c \in Visitors => request[c] = NoRequest
    BY <1>1, <2>1 DEF Stands
  <2> DEFINE s == [user |-> UserOf[login[c].identifier], left |-> SessionTTL]
  <2>3. s \in Sessions
    BY <2>1, AuthnAssumption DEF Matches, Sessions, Left
  <2>4. cookie' = IF c \in Visitors THEN [cookie EXCEPT ![c] = s] ELSE cookie
    BY <1>5 DEF LoginSucceeds
  <2> HIDE DEF s
  <2>5. Kept' /\ \A x \in Visitors : x # c => cookie'[x] = cookie[x]
    BY <1>1, <2>1, <2>3, <2>4 DEF Kept
  <2> QED BY <1>1, <2>1, <2>2, <2>5, FreeVisitorStands DEF Kept
<1>6. ASSUME NEW t \in Tokens, NEW u \in TokenUsers, NEW caps \in Grants, NEW ttl \in Lifetimes,
             CreateAppToken(t, u, caps, ttl)
      PROVE  GateInv'
  <2> DEFINE a == [user |-> u, caps |-> caps, left |-> IF ttl = 0 THEN DefaultLifetime ELSE ttl]
  <2>1. a \in AppTokens
    BY DEF AppTokens, Left
  <2>2. /\ tokens[t] = NoToken /\ tokens' = [tokens EXCEPT ![t] = a]
        /\ UNCHANGED <<login, cookie, form, request>>
    BY <1>6 DEF CreateAppToken, authnVars
  <2> HIDE DEF a
  <2>3. Kept'
    BY <1>1, <2>1, <2>2 DEF Kept
  <2>4. \A x \in Tokens : tokens[x] # NoToken => tokens'[x] = tokens[x]
    BY <1>1, <2>2 DEF Kept
  <2>5. ASSUME NEW v \in Visitors PROVE Stands(v)'
    <3>1. CASE request[v] = NoRequest
      BY <2>2, <3>1 DEF Stands
    <3>2. CASE request[v] # NoRequest
      <4>1. request[v] \in Requests /\ Stands(v)
        BY <1>1, <3>2 DEF Kept
      <4>2. CASE request[v].credential.by = "cookie"
        BY <2>2, <3>2, <4>1, <4>2 DEF Stands, Holds, RestsOn
      <4>3. CASE request[v].credential.by # "cookie"
        <5>1. request[v].credential.prefix \in Tokens
          BY <4>1, <4>3 DEF Requests, Credentials
        <5> QED BY <2>2, <2>4, <3>2, <4>1, <4>3, <5>1 DEF Stands, Holds, RestsOn
      <4> QED BY <4>2, <4>3
    <3> QED BY <3>1, <3>2
  <2> QED BY <2>3, <2>5 DEF GateInv
<1>7. ASSUME NEW v \in Visitors, RenderLogin(v) PROVE GateInv'
  <2>1. Kept'
    BY <1>1, <1>7 DEF RenderLogin, authnVars, Kept, Forms, Scopes, Left
  <2> QED BY <1>7, <2>1, StandsFrame DEF RenderLogin, authnVars, GateInv
<1>8. ASSUME NEW v \in Visitors, completeLogout(v) PROVE GateInv'
  <2>1. /\ cookie' = [cookie EXCEPT ![v] = NoSession] /\ request[v] = NoRequest
        /\ UNCHANGED <<login, form, tokens, request>>
    BY <1>8 DEF completeLogout, authnVars, Free
  <2>2. Kept' /\ v \in Clients
    BY <1>1, <2>1 DEF Kept
  <2> QED BY <1>1, <2>1, <2>2, FreeVisitorStands DEF Kept
<1>9. ASSUME NEW v \in Visitors, AskAgain(v) PROVE GateInv'
  <2> DEFINE r == request[v]
             p == principalFromRequest(v, r.credential)
             s == Sent(r.credential, "reading", p, r.capability)
  <2>1. /\ r # NoRequest /\ r.pc = "gated"
        /\ request' = [request EXCEPT ![v] = s]
        /\ UNCHANGED <<login, cookie, form, tokens>>
    BY <1>1, <1>9 DEF AskAgain, At, authnVars, Kept
  <2>2. r \in Requests /\ login[v] = NoLogin /\ Holds(v, r)
    BY <1>1, <2>1 DEF Kept, Stands
  <2>3. r.credential \in Credentials /\ r.capability \in Capabilities
    BY <2>2 DEF Requests
  <2>4. s \in Requests
    BY <1>1, <2>3, PrincipalsLemma, SentLemma
  <2>5. s.credential = r.credential /\ s.principal = p /\ s.pc = "reading"
    BY DEF Sent
  <2>6. ASSUME p # Nobody
        PROVE  /\ RestsOn(v, r.credential, p)
               /\ "admin.access" \in principalForUser(p.id).caps
    <3>1. RestsOn(v, r.credential, p)
      BY <1>1, <2>3, <2>6, SomebodyLemma
    <3>2. RestsOn(v, r.credential, r.principal)
      BY <2>1, <2>2 DEF Holds
    <3>3. p.id = r.principal.id
      BY <3>1, <3>2 DEF RestsOn
    <3>4. "admin.access" \in principalForUser(r.principal.id).caps
      BY <2>1, <2>2 DEF Holds
    <3> QED BY <3>1, <3>3, <3>4
  <2> HIDE DEF s, p
  <2>7. Holds(v, s)
    BY <2>5, <2>6 DEF Holds
  <2> QED BY <2>1, <2>2, <2>4, <2>7, SentStands
<1>16. ASSUME NEW v \in Visitors, handleBFFAction(v) PROVE GateInv'
  <2> DEFINE r == request[v]
             s == [r EXCEPT !.pc = "executed"]
  <2>1. /\ r # NoRequest /\ r.pc = "reading"
        /\ request' = [request EXCEPT ![v] = s]
        /\ UNCHANGED <<login, cookie, form, tokens>>
    BY <1>1, <1>16 DEF handleBFFAction, At, authnVars, Kept
  <2>2. r \in Requests /\ login[v] = NoLogin /\ Holds(v, r)
    BY <1>1, <2>1 DEF Kept, Stands
  <2>3. /\ s \in Requests /\ s.credential = r.credential
        /\ s.principal = r.principal /\ s.pc = "executed"
    BY <2>2 DEF Requests
  <2> HIDE DEF s
  <2>4. Holds(v, s)
    BY <2>2, <2>3 DEF Holds
  <2> QED BY <2>1, <2>2, <2>3, <2>4, SentStands
<1>10. ASSUME NEW v \in Visitors, ActionRefused(v) \/ Answer(v) PROVE GateInv'
  BY <1>10, ForgottenStands DEF ActionRefused, Answer, authnVars
<1>11. ASSUME NEW v \in Visitors, NEW credential \in Credentials, NEW scope \in ScreenScopes,
              renderAdminScreen(v, credential, scope)
       PROVE  GateInv'
  <2>1. Kept'
    BY <1>1, <1>11 DEF renderAdminScreen, authnVars, Kept, Forms, Scopes, Left
  <2> QED BY <1>11, <2>1, StandsFrame DEF renderAdminScreen, authnVars, GateInv
<1>12. ASSUME NEW v \in Visitors, NEW credential \in Credentials,
              \/ requireBFFJSON(v, credential)
              \/ \E capability \in Needed : Authorize(v, credential, capability)
       PROVE  GateInv'
  <2> DEFINE p == principalFromRequest(v, credential)
  <2>1. "content.write" \in Capabilities
    BY DEF Capabilities, BuiltInRoles, Edits
  <2>2. PICK pc \in {"gated", "executed"}, capability \in Capabilities :
          /\ p # Nobody /\ login[v] = NoLogin
          /\ pc = "gated" => "admin.access" \in p.caps
          /\ request' = [request EXCEPT ![v] = Sent(credential, pc, p, capability)]
          /\ UNCHANGED <<login, cookie, form, tokens>>
    BY <1>12, <2>1 DEF requireBFFJSON, Authorize, MayEnter, Free, authnVars
  <2> DEFINE s == Sent(credential, pc, p, capability)
  <2>3. s \in Requests
    BY <1>1, PrincipalsLemma, SentLemma
  <2>4. s.credential = credential /\ s.principal = p /\ s.pc = pc
    BY DEF Sent
  <2>5. RestsOn(v, credential, p)
    BY <1>1, <2>2, SomebodyLemma
  <2>6. pc = "gated" => "admin.access" \in principalForUser(p.id).caps
    BY <2>2, <2>5 DEF RestsOn
  <2> HIDE DEF s, p
  <2>7. Holds(v, s)
    BY <2>2, <2>4, <2>5, <2>6 DEF Holds
  <2> QED BY <2>2, <2>3, <2>7, SentStands DEF s
<1>14. ASSUME TimePasses PROVE GateInv'
  <2>1. UNCHANGED <<login, request>>
    BY <1>14 DEF TimePasses, Tick
  <2>2. Kept'
    BY <1>1, <1>14, TickKeeps
  <2>3. ASSUME NEW v \in Visitors PROVE Stands(v)'
    <3>1. CASE request[v] = NoRequest
      BY <2>1, <3>1 DEF Stands
    <3>2. CASE request[v] # NoRequest
      <4>1. request[v] \in Requests /\ Stands(v)
        BY <1>1, <3>2 DEF Kept
      <4>2. CASE request[v].credential.by = "cookie"
        <5>1. cookie[v] # NoSession => cookie'[v] # NoSession /\ cookie'[v].user = cookie[v].user
          BY <1>1, <1>14, TickKeeps
        <5> QED BY <2>1, <3>2, <4>1, <4>2, <5>1 DEF Stands, Holds, RestsOn
      <4>3. CASE request[v].credential.by # "cookie"
        <5> DEFINE t == request[v].credential.prefix
        <5>1. t \in Tokens
          BY <4>1, <4>3 DEF Requests, Credentials
        <5>2. tokens[t] # NoToken => tokens'[t] # NoToken /\ SameToken(tokens'[t], tokens[t])
          BY <1>1, <1>14, <5>1, TickKeeps
        <5> QED BY <2>1, <3>2, <4>1, <4>3, <5>2 DEF Stands, Holds, RestsOn, SameToken
      <4> QED BY <4>2, <4>3
    <3> QED BY <3>1, <3>2
  <2> QED BY <2>2, <2>3 DEF GateInv
<1>15. ASSUME UNCHANGED vars PROVE GateInv'
  BY <1>1, <1>15, StandsFrame DEF vars, authnVars, boundaryVars, GateInv, Kept
<1> QED
  BY <1>2, <1>3, <1>4, <1>5, <1>6, <1>7, <1>8, <1>9, <1>10, <1>11, <1>12, <1>14, <1>15, <1>16
  DEF BoundaryNext
-----------------------------------------------------------------------------
\* Only three steps move a request on to where its body is read or it is executed.
LEMMA MovingSteps ==
  ASSUME GateInv, [BoundaryNext]_vars, NEW v \in Visitors, NEW pc \in {"reading", "executed"},
         Moves(v, pc)
  PROVE  \/ pc = "reading" /\ AskAgain(v)
         \/ pc = "executed" /\ handleBFFAction(v)
         \/ /\ pc = "executed"
            /\ \E credential \in Credentials, capability \in Needed :
                 Authorize(v, credential, capability)
<1>1. Kept
  BY DEF GateInv
<1>2. request' # request /\ request'[v] # request[v] /\ request'[v].pc = pc
  BY DEF Moves
<1>3. ASSUME NEW w \in Visitors, AskAgain(w) PROVE w = v /\ pc = "reading"
  <2>1. w = v
    BY <1>1, <1>2, <1>3 DEF AskAgain, Kept
  <2> QED BY <1>1, <1>2, <1>3, <2>1 DEF AskAgain, Sent, Kept
<1>4. ASSUME NEW w \in Visitors, handleBFFAction(w) PROVE w = v /\ pc = "executed"
  <2>1. w = v
    BY <1>1, <1>2, <1>4 DEF handleBFFAction, Kept
  <2>2. request[w] \in Requests
    BY <1>1, <1>4 DEF handleBFFAction, At, Kept
  <2> QED BY <1>1, <1>2, <1>4, <2>1, <2>2 DEF handleBFFAction, Kept, Requests
<1>5. ASSUME NEW w \in Visitors, NEW credential \in Credentials, NEW capability \in Needed,
             Authorize(w, credential, capability)
      PROVE  w = v /\ pc = "executed"
  <2>1. w = v
    BY <1>1, <1>2, <1>5 DEF Authorize, Kept
  <2> QED BY <1>1, <1>2, <1>5, <2>1 DEF Authorize, Sent, Kept
<1>6. ASSUME NEW w \in Visitors, ActionRefused(w) \/ Answer(w) PROVE FALSE
  <2>1. \A x \in Visitors : request'[x] = request[x] \/ request'[x] = NoRequest
    BY <1>1, <1>6 DEF ActionRefused, Answer, Kept
  <2> QED BY <2>1 DEF Moves
<1>7. ASSUME NEW w \in Visitors, NEW credential \in Credentials, requireBFFJSON(w, credential)
      PROVE  FALSE
  <2>1. \A x \in Visitors : request'[x] = request[x] \/ request'[x].pc = "gated"
    BY <1>1, <1>7 DEF requireBFFJSON, Sent, Kept
  <2> QED BY <2>1 DEF Moves
<1> QED
  BY <1>2, <1>3, <1>4, <1>5, <1>6, <1>7
  DEF BoundaryNext, vars, boundaryVars, LoginRefused, PostLogin, LoginFails, LoginSucceeds,
      CreateAppToken, RenderLogin, completeLogout, renderAdminScreen, TimePasses

\* What is executed rests on the credential of its request.
LEMMA StepCovered ==
  ASSUME GateInv, [BoundaryNext]_vars, NEW v \in Visitors, Moves(v, "executed")
  PROVE  Covered(v)
<1>1. Kept /\ Stands(v)
  BY DEF GateInv
<1>2. CASE handleBFFAction(v)
  <2> DEFINE r == request[v]
  <2>1. /\ r # NoRequest /\ r.pc = "reading" /\ r.capability \in r.principal.caps
        /\ validActionToken(v, ContentScope)
        /\ request'[v] = [r EXCEPT !.pc = "executed"]
    BY <1>1, <1>2 DEF handleBFFAction, At, Kept
  <2>2. r \in Requests /\ Holds(v, r)
    BY <1>1, <2>1 DEF Kept, Stands
  <2>3. r.principal # Nobody
    BY <2>1 DEF Nobody
  <2>4. /\ request'[v].credential = r.credential /\ request'[v].principal = r.principal
        /\ request'[v].capability = r.capability
    BY <2>1, <2>2 DEF Requests
  <2>5. /\ RestsOn(v, r.credential, r.principal)
        /\ "admin.access" \in principalForUser(r.principal.id).caps
    BY <2>1, <2>2, <2>3 DEF Holds
  <2>6. form[v].action = ContentScope /\ form[v].left >= 0
    <3>1. form[v] \in Forms /\ form[v].left # Expired /\ form[v].action = ContentScope
      BY <1>1, <2>1 DEF Kept, validActionToken
    <3> QED BY <3>1 DEF Forms, Left, Expired
  <2> QED BY <2>1, <2>4, <2>5, <2>6 DEF Covered
<1>3. ASSUME NEW credential \in Credentials, NEW capability \in Needed,
             Authorize(v, credential, capability)
      PROVE  Covered(v)
  <2> DEFINE p == principalFromRequest(v, credential)
  <2>1. /\ p # Nobody /\ capability \in p.caps /\ request[v] = NoRequest
        /\ request' = [request EXCEPT ![v] = Sent(credential, "executed", p, capability)]
    BY <1>3 DEF Authorize, Free
  <2>2. RestsOn(v, credential, p) /\ Unexpired(v, credential)
    BY <1>1, <2>1, SomebodyLemma
  <2>3. /\ request'[v].credential = credential /\ request'[v].principal = p
        /\ request'[v].capability = capability
    BY <1>1, <2>1 DEF Kept, Sent
  <2> HIDE DEF p
  <2> QED BY <2>1, <2>2, <2>3 DEF Covered
<1> QED BY <1>2, <1>3, MovingSteps

\* Who is somebody when asked again carries a credential that has not expired.
LEMMA StepUnexpired ==
  ASSUME GateInv, [BoundaryNext]_vars, NEW v \in Visitors, Moves(v, "reading"),
         request'[v].principal # Nobody
  PROVE  Unexpired(v, request'[v].credential)
<1>1. Kept /\ AskAgain(v)
  BY MovingSteps DEF GateInv
<1> DEFINE r == request[v]
           p == principalFromRequest(v, r.credential)
<1>2. /\ r # NoRequest
      /\ request'[v] = Sent(r.credential, "reading", p, r.capability)
  BY <1>1 DEF AskAgain, At, Kept
<1>3. request'[v].credential = r.credential /\ request'[v].principal = p
  BY <1>2 DEF Sent
<1>4. r.credential \in Credentials
  BY <1>1, <1>2 DEF Kept, Requests
<1> QED BY <1>1, <1>3, <1>4, SomebodyLemma

\* What is known of requests holds in every state of the boundary.
THEOREM GateInvHolds == BoundarySpec => []GateInv
<1>1. GateInv /\ [BoundaryNext]_vars => GateInv'
  BY GateStep
<1> QED BY <1>1, InitGate, PTL DEF BoundarySpec

\* The types of the boundary's state, and with them what is proved of the service: the
\* failures of every identifier stay bounded, whatever logins the boundary lets through.
THEOREM BoundaryInvHolds == BoundarySpec => []BoundaryInv
<1>1. GateInv /\ Inv => BoundaryInv
  BY DEF GateInv, Kept, Inv, BoundaryInv, BoundaryTypeOK
<1> QED BY <1>1, GateInvHolds, BoundaryRunsAuthn, InvHolds, PTL

\* Whoever acts, by session or by app token, and however long the request took,
\* acts by a credential that stood and within the capabilities of an active user.
THEOREM ActsAreCoveredHolds == BoundarySpec => ActsAreCovered
<1>1. GateInv /\ [BoundaryNext]_vars =>
        [\A v \in Visitors :
           /\ Moves(v, "executed") => Covered(v)
           /\ Moves(v, "reading") /\ request'[v].principal # Nobody =>
                Unexpired(v, request'[v].credential)]_vars
  BY StepCovered, StepUnexpired
<1> QED BY <1>1, GateInvHolds, PTL DEF BoundarySpec, ActsAreCovered
=============================================================================
