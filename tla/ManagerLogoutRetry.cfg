\* A logout by device that failed half-way is tried again.
SPECIFICATION Spec
CONSTANTS
  NoToken = NoToken
  NoSubject = NoSubject
  NoDevice = NoDevice
  NoEntry = NoEntry
  Client = {c1}
  TokenValue = {t1, t2}
  Subject = {u1}
  Device = {d1}
  Setups <- MCLogoutRetry
PROPERTY DeviceLogoutRevokes
CHECK_DEADLOCK FALSE
