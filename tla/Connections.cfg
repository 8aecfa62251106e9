SPECIFICATION AnySpec
CONSTANTS
  i1 = i1
  t1 = t1
  t2 = t2
  none = none
  None = none
  Sids = {i1}
  ServerStreams = {t1, t2}
  OutCap = 1
  EventsOf <- TwoAndNone
  Streams = {s1, s2, s3}
  NoStream = none
  MaxDials = 3
INVARIANTS
  OpenStreamsAreReachable
  OneStreamPerCluster
PROPERTIES
  StreamFramesAreGapless
  GoroutinesEnd
  Reconnects
  ForwardsStop
CHECK_DEADLOCK FALSE
