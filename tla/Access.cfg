\* One request, forwarded once, against login, logout, expiry and an administrator.
SPECIFICATION Spec
CONSTANTS
  u1 = u1
  u2 = u2
  t1 = t1
  Bearer = Bearer
  bearer = bearer
  other = other
  Word = {t1, Bearer, bearer, other}
  Lower <- MCLower
  NoPrefix = NoPrefix
  NoName = NoName
  TokenName = "token"
  MetadataKey = "authorization"
  Request = {q1}
  TokenValue = {t1}
  NoToken = NoToken
  NoEntry = NoEntry
  NoAuth = NoAuth
  Sites <- MCSites
  Requests <- MCRequests
  Issues <- MCIssues
  Lists <- MCLists
  ActiveTimeout = 2
  MaxTime = 1
  LoginID = {u1, u2}
  BlankID = BlankID
  Char = {"a", "b", "*"}
  Star = "*"
  Name <- MCName
  Managed = {u1}
  RoleName <- MCRoleName
  PermissionName <- MCName
INVARIANT TypeOK
INVARIANT ServedAsHolder
INVARIANT WriterIsHeard
INVARIANT AnswersAreTrue
INVARIANT ListingAgrees
CHECK_DEADLOCK FALSE
