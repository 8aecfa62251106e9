SPECIFICATION StreamSpec
CONSTANTS
  Streams = {s1, s2, s3}
  NoStream = none
INVARIANT
  ReimportIsFresh
