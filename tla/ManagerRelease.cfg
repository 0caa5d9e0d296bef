\* The claim of a cancelled non-rotating refresh is released; refresh tokens expire.
SPECIFICATION FairSpec
CONSTANTS
  NoToken = NoToken
  NoSubject = NoSubject
  NoDevice = NoDevice
  NoEntry = NoEntry
  Client = {c1, c2}
  TokenValue = {t1, t2, t3, t4}
  Subject = {u1}
  Device = {}
  Setups <- MCRelease
PROPERTY ClaimReleased
CHECK_DEADLOCK FALSE
