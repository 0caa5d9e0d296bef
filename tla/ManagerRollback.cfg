\* The context is done when the refresh token is stored.
SPECIFICATION Spec
CONSTANTS
  NoToken = NoToken
  NoSubject = NoSubject
  NoDevice = NoDevice
  NoEntry = NoEntry
  Client = {c1, c2}
  TokenValue = {t1, t2}
  Subject = {u1}
  Device = {}
  Setups <- MCRollback
PROPERTY RollbackCompletes
SYMMETRY MCSymmetry
CHECK_DEADLOCK FALSE
