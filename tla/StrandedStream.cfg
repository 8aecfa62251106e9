CONSTANTS
  k1 = k1
  k2 = k2
  e1 = e1
  e2 = e2
  e3 = e3
  s1 = s1
  s2 = s2
  s3 = s3
  none = none
  None = none
  Keys = {k1}
  Entries = {e1, e2}
  Subs = {s1, s2}
  ChanCap = 2
  MaxVersion = 0
SPECIFICATION UndisturbedSpec
INVARIANT
  OpenStreamIsFed
CHECK_DEADLOCK FALSE
