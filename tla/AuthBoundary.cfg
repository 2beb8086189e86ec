CONSTANTS
  c1 = c1
  c2 = c2
  t1 = t1
  ed = ed
  vi = vi
  gone = gone
  edId = edId
  viMail = viMail
  Clients = {c1, c2}
  Visitors = {c1}
  Identifiers = {edId, viMail}
  Users = {ed, vi, gone}
  NoUser = NoUser
  UserOf <- MCUserOf
  Active = {ed, vi}
  RolesOf <- MCRolesOf
  PasswordOf <- MCPasswordOf
  NoLogin = NoLogin
  FailureLimit = 3
  Window = 1
  Tokens = {t1}
  NoToken = NoToken
  NoSession = NoSession
  NoForm = NoForm
  NoRequest = NoRequest
  TokenUsers = {ed, gone}
  Grants <- MCGrants
  Lifetimes = {0, 1}
  DefaultLifetime = 1
  SessionTTL = 1
  FormTTL = 0
  Needed = {"content.write"}
SPECIFICATION BoundarySpec
INVARIANTS
  BoundaryInv
PROPERTIES
  ActsAreCovered
  AuthnSpec
  LockEnds
CHECK_DEADLOCK FALSE
