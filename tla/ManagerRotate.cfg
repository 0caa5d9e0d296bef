\* Rotation, nonces and renewal against logout, revocation and expiry.
SPECIFICATION Spec
CONSTANTS
  NoToken = NoToken
  NoSubject = NoSubject
  NoDevice = NoDevice
  NoEntry = NoEntry
  Client = {c1, c2, c3}
  TokenValue = {t1, t2, t3, t4, t5, t6, t7, t8}
  Subject = {u1}
  Device = {}
  Setups <- MCRotate
INVARIANT TypeOK
INVARIANT DeadStaysDead
INVARIANT LogoutSeversRefresh
INVARIANT RedeemedOnce
INVARIANT RotationIsLinear
PROPERTY NeverResurrected
SYMMETRY MCSymmetry
CHECK_DEADLOCK FALSE
