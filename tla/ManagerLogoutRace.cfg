\* A logout while a rotating refresh of the same session is in flight.
SPECIFICATION Spec
CONSTANTS
  NoToken = NoToken
  NoSubject = NoSubject
  NoDevice = NoDevice
  NoEntry = NoEntry
  Client = {c1, c2}
  TokenValue = {t1, t2, t3, t4}
  Subject = {u1}
  Device = {}
  Setups <- MCLogoutRace
PROPERTY LogoutBeatsRefresh
SYMMETRY MCSymmetry
CHECK_DEADLOCK FALSE
