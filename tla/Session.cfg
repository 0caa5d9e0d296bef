\* Two session objects that may contain each other, saved, loaded and marshalled while they are written.
SPECIFICATION Spec
SYMMETRY Symmetry
CONSTANTS
  Session = {s1, s2, s3}
  Map = {m1, m2, m3, m4, m5, m6, m7}
  Slot = {a, b}
  Absent = Absent
  Cycle = Cycle
  None = None
  MaxOps = 3
  MaxInt = 63
  MaxNative = 31
  IntDigits = 2
  Digit = {0, 4, 6}
  MaxExponent = 4
PROPERTY SnapshotsDetached
INVARIANT RejectsCycles
INVARIANT NumbersExact
CHECK_DEADLOCK FALSE
