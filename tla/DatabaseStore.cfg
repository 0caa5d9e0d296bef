\* Two goroutines racing on one row that expires, is rebound and is recreated, or on one session.
SPECIFICATION Spec
CONSTANTS
  Token = {k1}
  Proc = {p1, p2}
  NoEntry = NoEntry
  u1 = u1
  u2 = u2
  none = none
  d1 = d1
  d2 = d2
  Subject = {u1, u2}
  ZeroSubject = none
  Data = {d1, d2}
  NewData = d1
  SaveInputs <- MCSaveInputs
  TTL = {1}
  SessionTTL = {0, 1}
  Filters = {{}, {"access"}}
  Ops = {"Save", "CAS", "Get", "Consume", "Delete", "Find", "DeleteAll", "SaveSession", "EnsureSession", "GetSession", "DeleteSession"}
  MaxTime = 1
INVARIANT TypeOK
INVARIANT SingleWinner
INVARIANT LockSuffices
PROPERTY ImplementsContract
CONSTRAINT OneTable
SYMMETRY MCSymmetry
