\* Reusable refresh tokens, and logins that replace others, against logout and revocation.
SPECIFICATION Spec
CONSTANTS
  NoToken = NoToken
  NoSubject = NoSubject
  NoDevice = NoDevice
  NoEntry = NoEntry
  Client = {c1, c2, c3}
  TokenValue = {t1, t2, t3, t4, t5}
  Subject = {u1}
  Device = {d1}
  Setups <- MCReuse
INVARIANT DeadStaysDead
INVARIANT ClaimExclusive
INVARIANT NoOrphanAccess
INVARIANT RefreshHasAccess
INVARIANT QuietLogoutSevers
PROPERTY RevocationFinal
PROPERTY NeverResurrected
PROPERTY LogoutBeatsRefresh
SYMMETRY MCSymmetry
CHECK_DEADLOCK FALSE
